---- MODULE Spec2Model ----
(***************************************************************************)
(* Model of the pico VFS multiplexer (src/pico_vfs/vfs.c): the registry    *)
(* s_vfs, the descriptor table s_fd_table, path resolution and the         *)
(* descriptor- and path-indexed dispatch surface.                          *)
(*                                                                         *)
(* Strings are sequences of one-character strings.  A pico_vfs_entry_t*    *)
(* is a heap address (0 is NULL); malloc hands out fresh addresses.  The   *)
(* opaque drvctx a caller registers with is a number that differs for      *)
(* each registration, so it also identifies the registration a backend     *)
(* call reaches.  Every public function is one action; the result of the   *)
(* call (return value, backend invocations, notifications) is left in      *)
(* `last`, the calling thread's error channel in `errno`.                  *)
(***************************************************************************)
EXTENDS Integers, Sequences, FiniteSets, TLC

VARIABLES
    vfs_initialised,  \* static bool vfs_initialised
    s_fd_table,       \* static pico_vfs_fd_table_t s_fd_table[MAX_FDS]
    s_vfs,            \* static pico_vfs_entry_t* s_vfs[VFS_MAX_COUNT]
    s_vfs_count,      \* static uint8_t s_vfs_count
    heap,             \* the pico_vfs_entry_t objects, by address
    nalloc,           \* number of entries malloc has handed out
    freed,            \* addresses passed to free()
    errno,            \* the caller's error channel (__errno_r(reent)); the caller
                      \* clears it before each call, so it is 0 on return unless set
    last,             \* the call that just returned
    owner,            \* history: the descriptors open() handed out and that are not
                      \* closed, each with the registration and local descriptor of its open
    oob,              \* history: a row outside s_fd_table was accessed
    mutex,            \* static mutex_t s_fd_table_mutex: the thread that holds it, or 0
    thr,              \* the VFS call each thread is executing: position and locals
    dev,              \* the pico_blockdev_t objects (pico_object_t header included)
    bthr,             \* the object / block-device call each thread is executing
    dir               \* the pico_vfs_internal_dir_t the root backend's opendir handed out

vars == <<vfs_initialised, s_fd_table, s_vfs, s_vfs_count, heap, nalloc, freed,
          errno, last, owner, oob, mutex, thr, dev, bthr, dir>>

\* what a VFS call that runs alone, from call to return, leaves as it was
threadVars == <<mutex, thr, dev, bthr, dir>>

-----------------------------------------------------------------------------
(* Program constants *)

MAX_FDS == 16
VFS_MAX_COUNT == 4
\* SIZE_MAX: a size_t value no prefix length reaches.  The checker's integers
\* are 32-bit signed, so the largest of them stands for it; the code only
\* compares the sentinel for equality.
LEN_PATH_PREFIX_IGNORED == 2147483647
PICO_VFS_BASE_PATH_MAX == 15

EIO == 5
ENOENT == 2
EBADF == 9
ENOMEM == 12
EBUSY == 16
EINVAL == 22
ENFILE == 23
ENOSYS == 88
EALREADY == 120
PICO_IOCTL_BLKGETSIZE == 0
PICO_IOCTL_BLKSSZGET == 1

NULL == 0

(* Bounds of the model *)

MaxAlloc == 3          \* entries malloc'ed in one behaviour (root backend included)
MaxAllocDispatch == 2  \* the same, under SpecDispatch
MaxAllocPath == 2      \* the same, under SpecPath
MaxOpen == 2           \* rows held by open() at the same time
MaxOpenDispatch == 1   \* the same, under SpecDispatch
MaxPathLen == 4        \* length of the paths handed to path-indexed calls
MaxAllocRegistry == 5  \* entries malloc'ed in one behaviour under SpecRegistry
MaxAllocThreads == 3   \* entries malloc'ed by calls that run alone, under SpecThreads
MaxOpenThreads == 1    \* rows held by open() calls that run alone, under SpecThreads
MaxThreadCalls == 2    \* calls the threads make while other threads run
NDevs == 4             \* block devices, partitions included
MaxParts == 2          \* partition entries a scan finds (the table has 4)
MaxBlockCalls == 6     \* block-device calls made one after the other
MaxObjectCalls == 5    \* ref and unref calls the threads make on the object
MaxChildCalls == 3     \* add_child calls the threads make
MaxRefs == 2           \* references a thread takes on one device
MaxAllocReaddir == 4   \* registrations made before the root directory is read
MaxReaddir == 5        \* readdir calls on one handle
MaxPartCalls == 2      \* calls made around the registration of a disk

-----------------------------------------------------------------------------
(* Data *)

Chars == {"/", "a"}

PathsUpTo(n) == UNION {[1..k -> Chars] : k \in 0..n}

Paths == PathsUpTo(MaxPathLen)

Rows == 0..(MAX_FDS - 1)

Slots == 0..(VFS_MAX_COUNT - 1)

Addrs == 1..(MaxAlloc + MaxAllocDispatch + MaxAllocPath)

\* the members of pico_vfs_ops_t the dispatch surface looks at
FdOpNames == {"read", "write", "pread", "pwrite", "lseek", "fcntl", "fstat",
              "fsync", "ioctl"}

DirOpNames == {"opendir", "closedir", "readdir", "readdir_r", "telldir", "seekdir"}

OpNames == FdOpNames \cup DirOpNames \cup {"open", "close", "stat"}

\* vfs.c:691-698, the vtable pico_vfs_init gives the root backend
rootops == {"opendir", "closedir", "readdir", "seekdir", "telldir"}

\* vfs.c:46
FD_TABLE_ENTRY_UNUSED == [vfs_index |-> -1, local_fd |-> -1, permanent |-> FALSE]

\* a zero-initialised row (static storage before pico_vfs_init)
ZeroRow == [vfs_index |-> 0, local_fd |-> 0, permanent |-> FALSE]

\* heap content of an address that holds no live entry
NoEntry == [path_prefix |-> <<>>, path_prefix_len |-> 0, ops |-> {},
            impl |-> "none", index |-> 0, drvctx |-> 0]

\* one invocation of a backend operation, with the value the backend returned
Invocation(ctx, op, lfd, path, res) ==
    [ctx |-> ctx, op |-> op, lfd |-> lfd, path |-> path, res |-> res]

Event(kind, path) == [kind |-> kind, path |-> path]

\* the record of a returned call: vfs is the entry the call resolved (NULL if
\* none), inv the backend operations it invoked, ev the notifications it emitted
Call(op, fd, path, ret, vfs, inv, ev) ==
    [op |-> op, fd |-> fd, path |-> path, ret |-> ret, vfs |-> vfs,
     inv |-> inv, ev |-> ev]

-----------------------------------------------------------------------------
(* Path routing *)

\* a translation without the special case of vfs.c:77-80 (fault injected for
\* C22)
translate_path_no_root(vfs, src_path) ==
    SubSeq(src_path, heap[vfs].path_prefix_len + 1, Len(src_path))

\* vfs.c:74-82
translate_path(vfs, src_path) ==
    IF Len(src_path) = heap[vfs].path_prefix_len
    THEN <<"/">>
    ELSE SubSeq(src_path, heap[vfs].path_prefix_len + 1, Len(src_path))

\* a prefix comparison that accepts every prefix (fault injected for C3)
memcmp_always(path, prefix, n) == TRUE

\* memcmp(path, prefix, n) == 0
memcmp_eq(path, prefix, n) == SubSeq(path, 1, n) = SubSeq(prefix, 1, n)

\* vfs.c:90-124, the loop body from slot i on
RECURSIVE path_scan(_, _, _, _)
path_scan(path, i, best_match, best_match_prefix_len) ==
    IF i >= s_vfs_count THEN best_match
    ELSE LET vfs == s_vfs[i]
             len == Len(path)
         IN  IF vfs = NULL \/ heap[vfs].path_prefix_len = LEN_PATH_PREFIX_IGNORED
             THEN path_scan(path, i + 1, best_match, best_match_prefix_len)
             ELSE IF len < heap[vfs].path_prefix_len
                     \/ ~memcmp_eq(path, heap[vfs].path_prefix, heap[vfs].path_prefix_len)
             THEN path_scan(path, i + 1, best_match, best_match_prefix_len)
             ELSE IF heap[vfs].path_prefix_len = 0 /\ best_match = NULL
             THEN path_scan(path, i + 1, vfs, best_match_prefix_len)
             ELSE IF len > heap[vfs].path_prefix_len
                     /\ path[heap[vfs].path_prefix_len + 1] # "/"
             THEN path_scan(path, i + 1, best_match, best_match_prefix_len)
             ELSE IF best_match_prefix_len < heap[vfs].path_prefix_len
             THEN path_scan(path, i + 1, vfs, heap[vfs].path_prefix_len)
             ELSE path_scan(path, i + 1, best_match, best_match_prefix_len)

\* vfs.c:84-127
pico_vfs_get_vfs_entry_for_path(path) == path_scan(path, 0, NULL, -1)

\* vfs.c:129-136
pico_vfs_get_vfs_entry_for_index(index) ==
    IF index < 0 \/ index >= s_vfs_count THEN NULL ELSE s_vfs[index]

\* vfs.c:148-151
pico_vfs_valid_fd(fd) == (fd < MAX_FDS) /\ (fd >= 0)

\* vfs.c:153-162
pico_vfs_get_vfs_for_fd(fd) ==
    IF pico_vfs_valid_fd(fd)
    THEN pico_vfs_get_vfs_entry_for_index(s_fd_table[fd].vfs_index)
    ELSE NULL

\* vfs.c:165-174
pico_vfs_local_fd(vfs, global_fd) ==
    IF vfs # NULL /\ pico_vfs_valid_fd(global_fd)
    THEN s_fd_table[global_fd].local_fd
    ELSE -1

-----------------------------------------------------------------------------
(* Registry *)

\* a slot search that never reuses a freed slot (fault injected for C11)
slot_append(index) == s_vfs_count

\* vfs.c:190-195, the search for a free slot from `index` on
RECURSIVE slot_scan(_)
slot_scan(index) ==
    IF index < s_vfs_count /\ s_vfs[index] # NULL THEN slot_scan(index + 1) ELSE index

\* vfs.c:178-185, the prefixes pico_vfs_register_common answers with EINVAL
prefix_rejected(base_path, len) ==
    /\ len # LEN_PATH_PREFIX_IGNORED
    /\ \/ (len # 0 /\ len < 2) \/ (len > PICO_VFS_BASE_PATH_MAX)
       \/ (len > 0 /\ base_path[1] # "/") \/ (len > 0 /\ base_path[len] = "/")

\* the result of pico_vfs_register_common when it returns before touching the
\* registry; *vfs_index is not written (every caller initialises it to -1)
RegisterFailed(code) ==
    [ret |-> code, index |-> -1, s_vfs |-> s_vfs, s_vfs_count |-> s_vfs_count,
     heap |-> heap, nalloc |-> nalloc]

\* vfs.c:176-221.  impl says whose functions the vtable `ops` points at;
\* malloc_ok is whether malloc returns an entry.
pico_vfs_register_common(base_path, len, ops, impl, drvctx, malloc_ok) ==
    IF len # LEN_PATH_PREFIX_IGNORED
       /\ ((len # 0 /\ len < 2) \/ (len > PICO_VFS_BASE_PATH_MAX))
    THEN RegisterFailed(EINVAL)
    ELSE IF len # LEN_PATH_PREFIX_IGNORED
            /\ ((len > 0 /\ base_path[1] # "/") \/ (len > 0 /\ base_path[len] = "/"))
    THEN RegisterFailed(EINVAL)
    ELSE IF ~malloc_ok
    THEN RegisterFailed(ENOMEM)
    ELSE LET entry == nalloc + 1
             index == slot_scan(0)
         IN  IF index = s_vfs_count /\ s_vfs_count >= VFS_MAX_COUNT
             THEN RegisterFailed(ENOMEM)     \* free(entry): the address is handed out again
             ELSE [ret |-> 0,
                   index |-> index,
                   s_vfs |-> [s_vfs EXCEPT ![index] = entry],
                   s_vfs_count |-> IF index = s_vfs_count THEN s_vfs_count + 1
                                   ELSE s_vfs_count,
                   heap |-> [heap EXCEPT ![entry] =
                               [path_prefix |-> IF len # LEN_PATH_PREFIX_IGNORED
                                                THEN base_path ELSE <<>>,
                                path_prefix_len |-> len,
                                ops |-> ops,
                                impl |-> impl,
                                index |-> index,
                                drvctx |-> drvctx]],
                   nalloc |-> nalloc + 1]

\* vfs.c:673-710
pico_vfs_init(malloc_ok) ==
    /\ UNCHANGED threadVars
    /\ IF vfs_initialised
       THEN /\ last' = Call("init", -1, <<>>, EBUSY, NULL, <<>>, <<>>)
            /\ errno' = 0
            /\ UNCHANGED <<vfs_initialised, s_fd_table, s_vfs, s_vfs_count, heap, nalloc,
                           freed, owner, oob>>
       ELSE LET r == pico_vfs_register_common(<<>>, 0, rootops, "root", NULL, malloc_ok)
            IN  /\ vfs_initialised' = TRUE
                /\ s_fd_table' = [i \in Rows |-> [s_fd_table[i] EXCEPT !.vfs_index = -1]]
                /\ s_vfs' = r.s_vfs
                /\ s_vfs_count' = r.s_vfs_count
                /\ heap' = r.heap
                /\ nalloc' = r.nalloc
                /\ last' = Call("init", -1, <<>>, IF r.ret < 0 THEN r.ret ELSE r.index,
                                NULL, <<>>, <<>>)
                /\ errno' = 0
                /\ UNCHANGED <<freed, owner, oob>>

\* vfs.c:231-239.  The caller's drvctx is a number no other registration uses.
pico_vfs_register(base_path, ops, malloc_ok) ==
    /\ vfs_initialised
    /\ UNCHANGED threadVars
    /\ LET r == pico_vfs_register_common(base_path, Len(base_path), ops, "driver",
                                         nalloc + 1, malloc_ok)
       IN  /\ s_vfs' = r.s_vfs
           /\ s_vfs_count' = r.s_vfs_count
           /\ heap' = r.heap
           /\ nalloc' = r.nalloc
           /\ last' = IF r.ret < 0
                      THEN Call("register", -1, base_path, r.ret, NULL, <<>>, <<>>)
                      ELSE Call("register", -1, base_path, r.index, NULL, <<>>,
                                <<Event("register", base_path)>>)
    /\ errno' = 0
    /\ UNCHANGED <<vfs_initialised, s_fd_table, freed, owner, oob>>

\* vfs.c:241-259
pico_vfs_unregister(index) ==
    /\ vfs_initialised
    /\ UNCHANGED threadVars
    /\ LET vfs == s_vfs[index]
       IN  IF vfs # NULL
           THEN /\ s_vfs' = [s_vfs EXCEPT ![index] = NULL]
                /\ heap' = [heap EXCEPT ![vfs] = NoEntry]
                /\ freed' = freed \cup {vfs}
                /\ last' = Call("unregister", index, <<>>, 0, vfs, <<>>,
                                <<Event("deregister", heap[vfs].path_prefix)>>)
           ELSE /\ last' = Call("unregister", index, <<>>, -1, NULL, <<>>, <<>>)
                /\ UNCHANGED <<s_vfs, heap, freed>>
    /\ errno' = 0
    /\ UNCHANGED <<vfs_initialised, s_fd_table, s_vfs_count, nalloc, owner, oob>>

-----------------------------------------------------------------------------
(* Descriptor table *)

\* vfs.c:269-273, the roll-back of the rows [min_fd, i) that name `index`
range_rollback(tbl, index, min_fd, i) ==
    [j \in Rows |-> IF j >= min_fd /\ j < i /\ tbl[j].vfs_index = index
                    THEN FD_TABLE_ENTRY_UNUSED ELSE tbl[j]]

\* vfs.c:266-280, the loop from row i on.  Row MAX_FDS does not exist: what is
\* read there is whatever follows the table in memory (past_free: it reads as
\* -1), and the write goes outside the table.
RECURSIVE range_loop(_, _, _, _, _, _, _)
range_loop(tbl, index, min_fd, max_fd, i, past_free, out) ==
    IF i > max_fd THEN [ret |-> 0, tbl |-> tbl, oob |-> out]
    ELSE IF i >= MAX_FDS
    THEN IF past_free
         THEN range_loop(tbl, index, min_fd, max_fd, i + 1, past_free, TRUE)
         ELSE [ret |-> EINVAL, tbl |-> range_rollback(tbl, index, min_fd, i),
               oob |-> TRUE]
    ELSE IF tbl[i].vfs_index # -1
    THEN [ret |-> EINVAL, tbl |-> range_rollback(tbl, index, min_fd, i), oob |-> out]
    ELSE range_loop([tbl EXCEPT ![i] = [vfs_index |-> index, local_fd |-> i,
                                        permanent |-> TRUE]],
                    index, min_fd, max_fd, i + 1, past_free, out)

\* vfs.c:262-283
pico_vfs_register_fd_range_for_vfs_index(index, min_fd, max_fd, past_free) ==
    range_loop(s_fd_table, index, min_fd, max_fd, min_fd, past_free, FALSE)

\* the record of a returned pico_vfs_register_fd_range(.., min_fd, max_fd)
CallRange(min_fd, max_fd, ret) ==
    [op |-> "register_fd_range", fd |-> min_fd, max_fd |-> max_fd, path |-> <<>>,
     ret |-> ret, vfs |-> NULL, inv |-> <<>>, ev |-> <<>>]

\* vfs.c:285-305
pico_vfs_register_fd_range(ops, min_fd, max_fd, malloc_ok, past_free) ==
    /\ vfs_initialised
    /\ UNCHANGED threadVars
    /\ IF min_fd < 0 \/ max_fd < 0 \/ min_fd > MAX_FDS \/ max_fd > MAX_FDS
          \/ min_fd > max_fd
       THEN /\ last' = CallRange(min_fd, max_fd, EINVAL)
            /\ UNCHANGED <<s_fd_table, s_vfs, s_vfs_count, heap, nalloc, oob>>
       ELSE LET r == pico_vfs_register_common(<<>>, LEN_PATH_PREFIX_IGNORED, ops,
                                              "driver", nalloc + 1, malloc_ok)
                f == pico_vfs_register_fd_range_for_vfs_index(r.index, min_fd, max_fd,
                                                              past_free)
            IN  /\ s_vfs' = r.s_vfs
                /\ s_vfs_count' = r.s_vfs_count
                /\ heap' = r.heap
                /\ nalloc' = r.nalloc
                /\ IF r.ret = 0
                   THEN /\ s_fd_table' = f.tbl
                        /\ oob' = (oob \/ f.oob)
                        /\ last' = CallRange(min_fd, max_fd,
                                             IF f.ret # 0 THEN -1 ELSE r.index)
                   ELSE /\ last' = CallRange(min_fd, max_fd, -1)
                        /\ UNCHANGED <<s_fd_table, oob>>
    /\ errno' = 0
    /\ UNCHANGED <<vfs_initialised, freed, owner>>

-----------------------------------------------------------------------------
(* Dispatch *)

\* vfs.c:308-314.  bad: the macro sets EBADF and returns -1.
VFSDECL_R(fd) ==
    LET vfs == pico_vfs_get_vfs_for_fd(fd)
        local_fd == pico_vfs_local_fd(vfs, fd)
    IN  [vfs |-> vfs, local_fd |-> local_fd, bad |-> (vfs = NULL \/ local_fd = -1)]

\* a call macro that forgets to set ENOSYS for a missing operation (fault
\* injected for C9)
VFSCALL_R_no_enosys(vfs, name, lfd, bres) ==
    IF name \notin heap[vfs].ops
    THEN [ret |-> -1, errno |-> 0, inv |-> <<>>]
    ELSE [ret |-> bres,
          errno |-> IF bres < 0 THEN -bres ELSE 0,
          inv |-> <<Invocation(heap[vfs].drvctx, name, lfd, <<>>, bres)>>]

\* vfs.c:316-324.  bres is the value the backend operation returns if invoked.
VFSCALL_R(vfs, name, lfd, bres) ==
    IF name \notin heap[vfs].ops
    THEN [ret |-> -1, errno |-> ENOSYS, inv |-> <<>>]
    ELSE [ret |-> bres,
          errno |-> IF bres < 0 THEN -bres ELSE 0,
          inv |-> <<Invocation(heap[vfs].drvctx, name, lfd, <<>>, bres)>>]

\* vfs.c:340-348, the body of pico_vfs_read, _write, _pread, _pwrite, _lseek,
\* _fcntl, _fstat, _fsync and _ioctl (vfs.c:350-442)
VFS_GENERIC_REENT_CALL(name, fd, bres) ==
    /\ vfs_initialised
    /\ UNCHANGED threadVars
    /\ LET d == VFSDECL_R(fd)
           c == VFSCALL_R(d.vfs, name, d.local_fd, bres)
       IN  IF d.bad
           THEN /\ errno' = EBADF
                /\ last' = Call(name, fd, <<>>, -1, d.vfs, <<>>, <<>>)
           ELSE /\ errno' = c.errno
                /\ last' = Call(name, fd, <<>>, c.ret, d.vfs, c.inv, <<>>)
    /\ UNCHANGED <<vfs_initialised, s_fd_table, s_vfs, s_vfs_count, heap, nalloc,
                   freed, owner, oob>>

\* vfs.c:356-370
pico_vfs_close(fd, bres) ==
    /\ vfs_initialised
    /\ UNCHANGED threadVars
    /\ LET d == VFSDECL_R(fd)
           c == VFSCALL_R(d.vfs, "close", d.local_fd, bres)
       IN  IF d.bad
           THEN /\ errno' = EBADF
                /\ last' = Call("close", fd, <<>>, -1, d.vfs, <<>>, <<>>)
                /\ UNCHANGED <<s_fd_table, owner>>
           ELSE /\ errno' = c.errno
                /\ last' = Call("close", fd, <<>>, c.ret, d.vfs, c.inv, <<>>)
                /\ s_fd_table' = IF c.ret = 0 /\ ~s_fd_table[fd].permanent
                                 THEN [s_fd_table EXCEPT ![fd] = FD_TABLE_ENTRY_UNUSED]
                                 ELSE s_fd_table
                /\ owner' = IF c.ret >= 0 THEN {w \in owner : w.fd # fd} ELSE owner
    /\ UNCHANGED <<vfs_initialised, s_vfs, s_vfs_count, heap, nalloc, freed, oob>>

\* vfs.c:472-481, the search for a free row from i on (MAX_FDS: none)
RECURSIVE fd_scan(_)
fd_scan(i) ==
    IF i < MAX_FDS /\ s_fd_table[i].vfs_index # -1 THEN fd_scan(i + 1) ELSE i

\* number of rows open() holds
OpenRows == Cardinality({i \in Rows : s_fd_table[i].vfs_index # -1
                                      /\ ~s_fd_table[i].permanent})

\* vfs.c:444-495.  bres and blfd are the status and the local descriptor the
\* backend's open produces, cres the result of the backend's close.
pico_vfs_open(path, bres, blfd, cres) ==
    /\ vfs_initialised
    /\ UNCHANGED threadVars
    /\ LET vfs == pico_vfs_get_vfs_entry_for_path(path)
       IN  IF vfs = NULL
           THEN /\ errno' = ENOENT
                /\ last' = Call("open", -1, path, -1, NULL, <<>>, <<>>)
                /\ UNCHANGED <<s_fd_table, owner>>
           ELSE LET path_within_vfs == translate_path(vfs, path)
                    has == "open" \in heap[vfs].ops
                    ret == IF has THEN bres ELSE -1
                    fd_within_vfs == IF has /\ bres >= 0 THEN blfd ELSE -1
                    inv == IF has
                           THEN <<Invocation(heap[vfs].drvctx, "open", fd_within_vfs,
                                             path_within_vfs, bres)>>
                           ELSE <<>>
                    errno1 == IF ~has THEN ENOSYS
                              ELSE IF bres < 0 THEN -bres ELSE 0
                    i == fd_scan(0)
                    c == VFSCALL_R(vfs, "close", fd_within_vfs, cres)
                IN  IF ret = 0
                    THEN IF i < MAX_FDS
                         THEN /\ s_fd_table' =
                                   [s_fd_table EXCEPT ![i] =
                                        [vfs_index |-> heap[vfs].index,
                                         local_fd |-> fd_within_vfs,
                                         permanent |-> FALSE]]
                              /\ owner' = {w \in owner : w.fd # i}
                                            \cup {[fd |-> i, reg |-> heap[vfs].drvctx,
                                                   lfd |-> fd_within_vfs]}
                              /\ errno' = errno1
                              /\ last' = Call("open", -1, path, i, vfs, inv, <<>>)
                         ELSE /\ errno' = ENFILE
                              /\ last' = Call("open", -1, path, -1, vfs, inv \o c.inv, <<>>)
                              /\ UNCHANGED <<s_fd_table, owner>>
                    ELSE /\ errno' = errno1
                         /\ last' = Call("open", -1, path, ret, vfs, inv, <<>>)
                         /\ UNCHANGED <<s_fd_table, owner>>
    /\ UNCHANGED <<vfs_initialised, s_vfs, s_vfs_count, heap, nalloc, freed, oob>>

\* vfs.c:404-427
pico_vfs_stat(path, bres) ==
    /\ vfs_initialised
    /\ UNCHANGED threadVars
    /\ LET vfs == pico_vfs_get_vfs_entry_for_path(path)
       IN  IF vfs = NULL
           THEN /\ errno' = ENOENT
                /\ last' = Call("stat", -1, path, -1, NULL, <<>>, <<>>)
           ELSE IF "stat" \notin heap[vfs].ops
           THEN /\ errno' = ENOSYS
                /\ last' = Call("stat", -1, path, -1, vfs, <<>>, <<>>)
           ELSE /\ errno' = IF bres < 0 THEN -bres ELSE 0
                /\ last' = Call("stat", -1, path, bres, vfs,
                                <<Invocation(heap[vfs].drvctx, "stat", -1,
                                             translate_path(vfs, path), bres)>>, <<>>)
    /\ UNCHANGED <<vfs_initialised, s_fd_table, s_vfs, s_vfs_count, heap, nalloc,
                   freed, owner, oob>>

\* vfs.c:589-608: the root backend's opendir gives a handle (1) for "/" only
pico_vfs_root_opendir(name) ==
    IF name = <<>> THEN [ret |-> NULL, errno |-> ENOENT]
    ELSE IF name = <<"/">> THEN [ret |-> 1, errno |-> 0]
    ELSE [ret |-> NULL, errno |-> ENOENT]

\* vfs.c:326-333.  bdir is the DIR* a driver's opendir returns (1: a handle).
VFSCALL_R_N(vfs, name, path, bdir) ==
    IF name \notin heap[vfs].ops
    THEN [ret |-> NULL, errno |-> ENOSYS, inv |-> <<>>]
    ELSE LET b == IF heap[vfs].impl = "root" THEN pico_vfs_root_opendir(path)
                  ELSE [ret |-> bdir, errno |-> 0]
         IN  [ret |-> b.ret, errno |-> b.errno,
              inv |-> <<Invocation(heap[vfs].drvctx, name, -1, path, b.ret)>>]

\* vfs.c:40-44 and newlib's DIR: no handle; and the handle of vfs.c:599-602
\* once pico_vfs_opendir stamped it (vfs.c:511).  dir_iter is the entry the
\* handle holds, seen the entries readdir returned on it, calls the readdir
\* calls made on it.
NoDirent == [d_name |-> <<>>, d_type |-> "DT_UNKNOWN"]

NoDir == [open |-> FALSE, d_off |-> 0, vfs_index |-> 0, dir_iter |-> NoDirent,
          seen |-> <<>>, calls |-> 0]

RootDir(index) == [NoDir EXCEPT !.open = TRUE, !.vfs_index = index]

\* vfs.c:497-518.  The call returns 1 for a handle, stamped with vfs->index.
pico_vfs_opendir(name, bdir) ==
    /\ vfs_initialised
    /\ UNCHANGED <<mutex, thr, dev, bthr>>
    /\ LET vfs == pico_vfs_get_vfs_entry_for_path(name)
           c == VFSCALL_R_N(vfs, "opendir", translate_path(vfs, name), bdir)
       IN  IF vfs = NULL
           THEN /\ errno' = ENOENT
                /\ last' = Call("opendir", -1, name, NULL, NULL, <<>>, <<>>)
                /\ UNCHANGED dir
           ELSE /\ errno' = IF c.ret # NULL THEN c.errno ELSE EINVAL
                /\ last' = Call("opendir", -1, name, c.ret, vfs, c.inv, <<>>)
                /\ dir' = IF heap[vfs].impl = "root" /\ c.ret # NULL
                          THEN RootDir(heap[vfs].index)
                          ELSE dir
    /\ UNCHANGED <<vfs_initialised, s_fd_table, s_vfs, s_vfs_count, heap, nalloc,
                   freed, owner, oob>>

\* the name with the '/' it begins with left in (fault injected for C24)
root_d_name_unstripped(path) == path

\* vfs.c:657-660 and 668, the name of the entry of a prefix
root_d_name(path) == IF path # <<>> /\ path[1] = "/" THEN Tail(path) ELSE path

\* vfs.c:646-652: the slot the loop stops at from cindex on, VFS_MAX_COUNT if
\* it runs off the registry
RECURSIVE root_next_slot(_)
root_next_slot(cindex) ==
    IF cindex >= VFS_MAX_COUNT THEN VFS_MAX_COUNT
    ELSE IF s_vfs[cindex] = NULL \/ heap[s_vfs[cindex]].path_prefix = <<>>
    THEN root_next_slot(cindex + 1)
    ELSE cindex

\* vfs.c:635-671 on handle d: the handle after the call and the value
\* returned (1: &d->dir_iter)
pico_vfs_root_readdir(d) ==
    LET cindex == root_next_slot(d.d_off)
    IN  IF d.d_off >= VFS_MAX_COUNT \/ cindex >= VFS_MAX_COUNT
        THEN [ret |-> NULL, dir |-> d]
        ELSE [ret |-> 1,
              dir |-> [d EXCEPT !.d_off = cindex + 1,
                                !.dir_iter = [d_name |-> root_d_name(
                                                  heap[s_vfs[cindex]].path_prefix),
                                              d_type |-> "DT_DIR"]]]

\* vfs.c:546-559 on the handle the root backend handed out.  bres is what a
\* driver's readdir returns, should the handle's slot hold a driver.
pico_vfs_readdir(bres) ==
    /\ vfs_initialised
    /\ dir.open
    /\ UNCHANGED <<mutex, thr, dev, bthr>>
    /\ LET vfs == pico_vfs_get_vfs_entry_for_index(dir.vfs_index)
       IN  IF vfs = NULL
           THEN /\ errno' = EBADF
                /\ last' = Call("readdir", -1, <<>>, NULL, NULL, <<>>, <<>>)
                /\ dir' = [dir EXCEPT !.calls = @ + 1]
           ELSE IF "readdir" \notin heap[vfs].ops
           THEN /\ errno' = ENOSYS
                /\ last' = Call("readdir", -1, <<>>, NULL, vfs, <<>>, <<>>)
                /\ dir' = [dir EXCEPT !.calls = @ + 1]
           ELSE LET b == IF heap[vfs].impl = "root" THEN pico_vfs_root_readdir(dir)
                         ELSE [ret |-> bres, dir |-> dir]
                IN  /\ errno' = 0
                    /\ last' = Call("readdir", -1, <<>>, b.ret, vfs,
                                    <<Invocation(heap[vfs].drvctx, "readdir", -1, <<>>,
                                                 b.ret)>>, <<>>)
                    /\ dir' = [b.dir EXCEPT
                                  !.calls = @ + 1,
                                  !.seen = IF b.ret # NULL /\ heap[vfs].impl = "root"
                                           THEN Append(@, b.dir.dir_iter) ELSE @]
    /\ UNCHANGED <<vfs_initialised, s_fd_table, s_vfs, s_vfs_count, heap, nalloc,
                   freed, owner, oob>>

-----------------------------------------------------------------------------
(* Threads in the VFS *)
(* A call that runs while other threads run is a sequence of steps, one per  *)
(* access to s_fd_table, s_vfs or s_fd_table_mutex and one per return of a   *)
(* backend operation or notification hook.  thr[t].pc is the step thread t   *)
(* takes next; "backend" and "hook" mean the thread is inside the backend    *)
(* operation thr[t].bop or inside a notification hook.  A thread that is     *)
(* "idle" keeps the operation and return value of the call it made last.     *)

\* two threads call into the VFS
Threads == {1, 2}

\* the path threads open and the prefix they register
ThreadPath == <<"/", "a", "/", "b">>
ThreadPrefix == <<"/", "a">>

IdleThread ==
    [pc |-> "idle", op |-> "none", fd |-> -1, vfs |-> NULL, local_fd |-> -1,
     ret |-> 0, entry |-> NULL, index |-> -1, bop |-> "none", calls |-> 0]

\* number of calls the threads 1..n have made
RECURSIVE calls_made(_)
calls_made(n) == IF n = 0 THEN 0 ELSE thr[n].calls + calls_made(n - 1)

AllIdle == \A t \in Threads : thr[t].pc = "idle"

\* no thread has made a call yet
NoCallYet == calls_made(Cardinality(Threads)) = 0

\* what a step of a VFS call leaves as it was
stepVars == <<vfs_initialised, errno, last, oob, dev, bthr, dir>>

\* thread t returns ret from its call
\* (its locals die with the call: only the outcome is kept)
Returned(t, ret) ==
    [IdleThread EXCEPT !.op = thr[t].op, !.ret = ret, !.entry = thr[t].entry,
                       !.calls = thr[t].calls]

Return(t, ret) == thr' = [thr EXCEPT ![t] = Returned(t, ret)]

\* vfs.c:54-57: mutex_enter_blocking
pico_vfs_table_lock(t) == mutex = 0 /\ mutex' = t

\* a table unlock that leaves the mutex held (fault injected for C17)
table_unlock_missing(t) == mutex' = mutex

\* vfs.c:59-62: mutex_exit
pico_vfs_table_unlock(t) == mutex' = 0

\* thread t enters pico_vfs_read / pico_vfs_close (fd), pico_vfs_open
\* (ThreadPath), pico_vfs_register (ThreadPrefix) or pico_vfs_unregister (fd is
\* the index)
thread_call(t, op, fd) ==
    /\ vfs_initialised
    /\ thr[t].pc = "idle"
    /\ thr' = [thr EXCEPT ![t] =
                  [IdleThread EXCEPT
                      !.pc = CASE op = "open" -> "open_resolve"
                               [] op = "register" -> "reg_check"
                               [] op = "unregister" -> "unreg_lock"
                               [] OTHER -> "decl_vfs",
                      !.op = op, !.fd = fd, !.calls = thr[t].calls + 1]]
    /\ UNCHANGED <<s_fd_table, s_vfs, s_vfs_count, heap, nalloc, freed, owner, mutex>>
    /\ UNCHANGED stepVars

\* vfs.c:309, VFSDECL_R: the row's backend is read without the lock
decl_vfs(t) ==
    /\ thr[t].pc = "decl_vfs"
    /\ thr' = [thr EXCEPT ![t].pc = "decl_local_fd",
                          ![t].vfs = pico_vfs_get_vfs_for_fd(thr[t].fd)]
    /\ UNCHANGED <<s_fd_table, s_vfs, s_vfs_count, heap, nalloc, freed, owner, mutex>>
    /\ UNCHANGED stepVars

\* vfs.c:310-314, VFSDECL_R: the row's local descriptor is read, EBADF returned
decl_local_fd(t) ==
    /\ thr[t].pc = "decl_local_fd"
    /\ LET local_fd == pico_vfs_local_fd(thr[t].vfs, thr[t].fd)
       IN  IF thr[t].vfs = NULL \/ local_fd = -1
           THEN Return(t, -1)
           ELSE thr' = [thr EXCEPT ![t].pc = "call", ![t].local_fd = local_fd]
    /\ UNCHANGED <<s_fd_table, s_vfs, s_vfs_count, heap, nalloc, freed, owner, mutex>>
    /\ UNCHANGED stepVars

\* vfs.c:316-324, VFSCALL_R up to the call of the backend operation.  An entry
\* that was freed meanwhile reads as anything: has_op is what the read gives.
call(t, has_op) ==
    /\ thr[t].pc = "call"
    /\ thr[t].vfs \notin freed => has_op = (thr[t].op \in heap[thr[t].vfs].ops)
    /\ IF has_op
       THEN thr' = [thr EXCEPT ![t].pc = "backend", ![t].bop = thr[t].op]
       ELSE Return(t, -1)
    /\ UNCHANGED <<s_fd_table, s_vfs, s_vfs_count, heap, nalloc, freed, owner, mutex>>
    /\ UNCHANGED stepVars

\* vfs.c:323 and 486, the call through vfs->ops of an entry that was freed
\* meanwhile: besides reading as a null or as a valid operation (call,
\* open_close), the pointer may lead anywhere, and control does not come back
call_lost(t) ==
    /\ thr[t].pc \in {"call", "open_close"}
    /\ thr[t].vfs \in freed
    /\ thr' = [thr EXCEPT ![t].pc = "lost"]
    /\ UNCHANGED <<s_fd_table, s_vfs, s_vfs_count, heap, nalloc, freed, owner, mutex>>
    /\ UNCHANGED stepVars

\* the backend operation thread t is in returns bres (and, for open, has written
\* the local descriptor blfd): vfs.c:323, 346-347, 359-361, 461-468, 485-491
backend_return(t, bres, blfd) ==
    /\ thr[t].pc = "backend"
    /\ CASE thr[t].op = "close" ->
               \* pico_vfs_close: ret == 0 goes on to free the row
               /\ IF bres = 0
                  THEN thr' = [thr EXCEPT ![t].pc = "close_lock", ![t].ret = bres]
                  ELSE Return(t, bres)
               /\ owner' = IF bres # 0 /\ bres >= 0
                           THEN {w \in owner : w.fd # thr[t].fd} ELSE owner
         [] thr[t].op = "open" /\ thr[t].bop = "open" ->
               \* pico_vfs_open: ret == 0 goes on to reserve a row, any other
               \* value is returned as it is
               /\ IF bres = 0
                  THEN thr' = [thr EXCEPT ![t].pc = "open_lock", ![t].ret = bres,
                                          ![t].local_fd = blfd]
                  ELSE Return(t, bres)
               /\ owner' = IF bres > 0
                           THEN owner \cup {[fd |-> bres, reg |-> heap[thr[t].vfs].drvctx,
                                             lfd |-> blfd]}
                           ELSE owner
         [] thr[t].op = "open" /\ thr[t].bop = "close" ->
               \* pico_vfs_open, table full: the close's result is dropped, ENFILE
               /\ Return(t, -1)
               /\ owner' = owner
         [] OTHER ->
               \* VFS_GENERIC_REENT_CALL: return ret
               /\ Return(t, bres)
               /\ owner' = owner
    /\ UNCHANGED <<s_fd_table, s_vfs, s_vfs_count, heap, nalloc, freed, mutex>>
    /\ UNCHANGED stepVars

\* vfs.c:362
close_lock(t) ==
    /\ thr[t].pc = "close_lock"
    /\ pico_vfs_table_lock(t)
    /\ thr' = [thr EXCEPT ![t].pc = "close_free"]
    /\ UNCHANGED <<s_fd_table, s_vfs, s_vfs_count, heap, nalloc, freed, owner>>
    /\ UNCHANGED stepVars

\* vfs.c:363-365
close_free(t) ==
    /\ thr[t].pc = "close_free"
    /\ s_fd_table' = IF ~s_fd_table[thr[t].fd].permanent
                     THEN [s_fd_table EXCEPT ![thr[t].fd] = FD_TABLE_ENTRY_UNUSED]
                     ELSE s_fd_table
    /\ thr' = [thr EXCEPT ![t].pc = "close_unlock"]
    /\ UNCHANGED <<s_vfs, s_vfs_count, heap, nalloc, freed, owner, mutex>>
    /\ UNCHANGED stepVars

\* vfs.c:366-369
close_unlock(t) ==
    /\ thr[t].pc = "close_unlock"
    /\ pico_vfs_table_unlock(t)
    /\ Return(t, thr[t].ret)
    /\ owner' = {w \in owner : w.fd # thr[t].fd}
    /\ UNCHANGED <<s_fd_table, s_vfs, s_vfs_count, heap, nalloc, freed>>
    /\ UNCHANGED stepVars

\* vfs.c:446-460: the path is resolved and the backend's open looked up
open_resolve(t) ==
    /\ thr[t].pc = "open_resolve"
    /\ LET vfs == pico_vfs_get_vfs_entry_for_path(ThreadPath)
       IN  IF vfs = NULL \/ "open" \notin heap[vfs].ops
           THEN Return(t, -1)
           ELSE thr' = [thr EXCEPT ![t].pc = "backend", ![t].bop = "open",
                                   ![t].vfs = vfs]
    /\ UNCHANGED <<s_fd_table, s_vfs, s_vfs_count, heap, nalloc, freed, owner, mutex>>
    /\ UNCHANGED stepVars

\* vfs.c:470
open_lock(t) ==
    /\ thr[t].pc = "open_lock"
    /\ pico_vfs_table_lock(t)
    /\ thr' = [thr EXCEPT ![t].pc = "open_scan"]
    /\ UNCHANGED <<s_fd_table, s_vfs, s_vfs_count, heap, nalloc, freed, owner>>
    /\ UNCHANGED stepVars

\* vfs.c:472-481: the first free row is taken, under the lock
open_scan(t) ==
    /\ thr[t].pc = "open_scan"
    /\ LET i == fd_scan(0)
       IN  IF i < MAX_FDS
           THEN /\ s_fd_table' = [s_fd_table EXCEPT ![i] =
                                     [vfs_index |-> heap[thr[t].vfs].index,
                                      local_fd |-> thr[t].local_fd,
                                      permanent |-> FALSE]]
                /\ thr' = [thr EXCEPT ![t].pc = "open_unlock", ![t].ret = i]
           ELSE /\ thr' = [thr EXCEPT ![t].pc = "open_unlock_full"]
                /\ UNCHANGED s_fd_table
    /\ UNCHANGED <<s_vfs, s_vfs_count, heap, nalloc, freed, owner, mutex>>
    /\ UNCHANGED stepVars

\* vfs.c:477-479: unlock and return the row
open_unlock(t) ==
    /\ thr[t].pc = "open_unlock"
    /\ pico_vfs_table_unlock(t)
    /\ Return(t, thr[t].ret)
    /\ owner' = {w \in owner : w.fd # thr[t].ret}
                  \cup {[fd |-> thr[t].ret, reg |-> heap[thr[t].vfs].drvctx,
                         lfd |-> thr[t].local_fd]}
    /\ UNCHANGED <<s_fd_table, s_vfs, s_vfs_count, heap, nalloc, freed>>
    /\ UNCHANGED stepVars

\* vfs.c:483: no row was free; unlock
open_unlock_full(t) ==
    /\ thr[t].pc = "open_unlock_full"
    /\ pico_vfs_table_unlock(t)
    /\ thr' = [thr EXCEPT ![t].pc = "open_close"]
    /\ UNCHANGED <<s_fd_table, s_vfs, s_vfs_count, heap, nalloc, freed, owner>>
    /\ UNCHANGED stepVars

\* vfs.c:485-491: VFSCALL_R(close) on the local descriptor, then ENFILE
open_close(t, has_op) ==
    /\ thr[t].pc = "open_close"
    /\ thr[t].vfs \notin freed => has_op = ("close" \in heap[thr[t].vfs].ops)
    /\ IF has_op
       THEN thr' = [thr EXCEPT ![t].pc = "backend", ![t].bop = "close"]
       ELSE Return(t, -1)
    /\ UNCHANGED <<s_fd_table, s_vfs, s_vfs_count, heap, nalloc, freed, owner, mutex>>
    /\ UNCHANGED stepVars

\* vfs.c:176-189 as called from pico_vfs_register (vfs.c:233-234): the prefix
\* is checked and the entry allocated.  No lock is taken (nor in the steps that
\* follow).  A failure is a positive code, which pico_vfs_register does not
\* take for one (vfs.c:235): it goes on to the notification hook and returns -1.
reg_check(t, malloc_ok) ==
    /\ thr[t].pc = "reg_check"
    /\ IF prefix_rejected(ThreadPrefix, Len(ThreadPrefix)) \/ ~malloc_ok
       THEN /\ thr' = [thr EXCEPT ![t].pc = "hook", ![t].ret = -1]
            /\ UNCHANGED nalloc
       ELSE /\ thr' = [thr EXCEPT ![t].pc = "reg_scan", ![t].entry = nalloc + 1]
            /\ nalloc' = nalloc + 1
    /\ UNCHANGED <<s_fd_table, s_vfs, s_vfs_count, heap, freed, owner, mutex>>
    /\ UNCHANGED stepVars

\* vfs.c:190-195: the search for a free slot
reg_scan(t) ==
    /\ thr[t].pc = "reg_scan"
    /\ thr' = [thr EXCEPT ![t].pc = "reg_count", ![t].index = slot_scan(0)]
    /\ UNCHANGED <<s_fd_table, s_vfs, s_vfs_count, heap, nalloc, freed, owner, mutex>>
    /\ UNCHANGED stepVars

\* vfs.c:196-202: a slot past the used ones extends s_vfs_count, if it may
reg_count(t) ==
    /\ thr[t].pc = "reg_count"
    /\ IF thr[t].index = s_vfs_count
       THEN IF s_vfs_count >= VFS_MAX_COUNT
            THEN /\ thr' = [thr EXCEPT ![t].pc = "hook", ![t].ret = -1]
                 /\ freed' = freed \cup {thr[t].entry}
                 /\ UNCHANGED s_vfs_count
            ELSE /\ thr' = [thr EXCEPT ![t].pc = "reg_store"]
                 /\ s_vfs_count' = s_vfs_count + 1
                 /\ UNCHANGED freed
       ELSE /\ thr' = [thr EXCEPT ![t].pc = "reg_store"]
            /\ UNCHANGED <<s_vfs_count, freed>>
    /\ UNCHANGED <<s_fd_table, s_vfs, heap, nalloc, owner, mutex>>
    /\ UNCHANGED stepVars

\* vfs.c:203-220: the entry is stored in the slot and filled in
reg_store(t) ==
    /\ thr[t].pc = "reg_store"
    /\ s_vfs' = [s_vfs EXCEPT ![thr[t].index] = thr[t].entry]
    /\ heap' = [heap EXCEPT ![thr[t].entry] =
                   [path_prefix |-> ThreadPrefix, path_prefix_len |-> Len(ThreadPrefix),
                    ops |-> OpNames, impl |-> "driver", index |-> thr[t].index,
                    drvctx |-> thr[t].entry]]
    /\ thr' = [thr EXCEPT ![t].pc = "hook", ![t].ret = thr[t].index]
    /\ UNCHANGED <<s_fd_table, s_vfs_count, nalloc, freed, owner, mutex>>
    /\ UNCHANGED stepVars

\* vfs.c:237, 254-258: pico_vfs_register_event / pico_vfs_deregister_event
\* returns, and so does the call
hook_return(t) ==
    /\ thr[t].pc = "hook"
    /\ Return(t, thr[t].ret)
    /\ UNCHANGED <<s_fd_table, s_vfs, s_vfs_count, heap, nalloc, freed, owner, mutex>>
    /\ UNCHANGED stepVars

\* vfs.c:245
unreg_lock(t) ==
    /\ thr[t].pc = "unreg_lock"
    /\ pico_vfs_table_lock(t)
    /\ thr' = [thr EXCEPT ![t].pc = "unreg_detach"]
    /\ UNCHANGED <<s_fd_table, s_vfs, s_vfs_count, heap, nalloc, freed, owner>>
    /\ UNCHANGED stepVars

\* vfs.c:246-252: the slot's entry is freed and the slot cleared
unreg_detach(t) ==
    /\ thr[t].pc = "unreg_detach"
    /\ LET vfs == s_vfs[thr[t].fd]
       IN  IF vfs # NULL
           THEN /\ heap' = [heap EXCEPT ![vfs] = NoEntry]
                /\ freed' = freed \cup {vfs}
                /\ s_vfs' = [s_vfs EXCEPT ![thr[t].fd] = NULL]
                /\ thr' = [thr EXCEPT ![t].pc = "unreg_unlock", ![t].vfs = vfs,
                                      ![t].ret = 0]
           ELSE /\ thr' = [thr EXCEPT ![t].pc = "unreg_unlock", ![t].ret = -1]
                /\ UNCHANGED <<heap, freed, s_vfs>>
    /\ UNCHANGED <<s_fd_table, s_vfs_count, nalloc, owner, mutex>>
    /\ UNCHANGED stepVars

\* vfs.c:253-254: unlock; the hook is called if an entry was detached
unreg_unlock(t) ==
    /\ thr[t].pc = "unreg_unlock"
    /\ pico_vfs_table_unlock(t)
    /\ IF thr[t].vfs # NULL
       THEN thr' = [thr EXCEPT ![t].pc = "hook"]
       ELSE Return(t, thr[t].ret)
    /\ UNCHANGED <<s_fd_table, s_vfs, s_vfs_count, heap, nalloc, freed, owner>>
    /\ UNCHANGED stepVars

-----------------------------------------------------------------------------
(* Objects and block devices *)
(* dev[d] is the pico_blockdev_t at address d, its pico_object_t header     *)
(* included.  ops names the vtable: "driver" is a driver's own, whose        *)
(* destroy only marks the device, "part" is part_ops of partition.c.         *)
(* children is the list of link entries, first link first.  dealloc and      *)
(* destroyed count the calls of obj.dealloc and of ops->destroy; uaf records *)
(* that a field of the device was read or written after its destroy.         *)
(* bthr[t].held[d] is the number of references to d that thread t owns.      *)

Devs == 1..NDevs

NoDev ==
    [alloc |-> FALSE, refcnt |-> 0, cs |-> 0, ops |-> "none", parent |-> NULL,
     children |-> <<>>, dealloc |-> 0, destroyed |-> 0, uaf |-> FALSE,
     aborted |-> FALSE, start_sector |-> 0, num_sectors |-> 0]

\* the VFS state, which no object or block-device call touches
vfsVars == <<vfs_initialised, s_fd_table, s_vfs, s_vfs_count, heap, nalloc, freed,
             errno, owner, oob, mutex, thr, dir>>

\* the record of a block-device call that just returned: the device, the value
\* returned and, for unregister, the devices of the tree before the call
BCall(op, d, ret, tree) == [op |-> op, dev |-> d, ret |-> ret, tree |-> tree]

\* the record of a returned pico_blockdev_register(d) that met `disk`
BCallRegister(d, ret, disk, link_ok) ==
    [op |-> "blockdev_register", dev |-> d, ret |-> ret, tree |-> {},
     disk |-> disk, link_ok |-> link_ok]

\* the record of a returned pico_blockdev_ioctl(d, cmd, &data)
BCallIoctl(d, cmd, res) ==
    [op |-> "blockdev_ioctl", dev |-> d, ret |-> res.r, tree |-> {},
     cmd |-> cmd, data |-> res.data]

\* a field of device o is read or written
obj_touch(D, o) == IF D[o].destroyed > 0 THEN [D EXCEPT ![o].uaf = TRUE] ELSE D

\* object.h:49-60
pico_object_init(D, o) ==
    [D EXCEPT ![o].cs = 0, ![o].refcnt = 1, ![o].dealloc = 0]

\* blockdev.c:43-50
pico_blockdev_init_dev(D, d, ops) ==
    [pico_object_init(D, d) EXCEPT ![d].alloc = TRUE, ![d].ops = ops,
                                   ![d].children = <<>>, ![d].parent = NULL,
                                   ![d].destroyed = 0, ![d].uaf = FALSE]

\* a reference that is not counted (fault injected for C29)
ref_nolock_missing(D, o) == obj_touch(D, o)

\* object.h:75-84 (uint8_t refcnt)
pico_object_ref_nolock(D, o) ==
    [obj_touch(D, o) EXCEPT ![o].refcnt = (@ + 1) % 256]

\* object.h:62-73, run from call to return: the critical section is entered
\* and left
pico_object_ref(D, o) == pico_object_ref_nolock(D, o)

RECURSIVE pico_object_unref(_, _)
RECURSIVE pico_blockdev_destroy_object(_, _)
RECURSIVE pico_blockdev_part_destroy(_, _)

\* object.h:86-105, run from call to return
pico_object_unref(D, o) ==
    LET D1 == [obj_touch(D, o) EXCEPT ![o].refcnt = (@ + 255) % 256]
        newref == D1[o].refcnt
    IN  IF newref = 0 THEN pico_blockdev_destroy_object(D1, o) ELSE D1

\* object.h:98-104: NULL if this unref saw the count reach zero
unref_result(D, o) == IF (D[o].refcnt + 255) % 256 = 0 THEN NULL ELSE o

\* blockdev.c:7-14, the dealloc function of every block device
pico_blockdev_destroy_object(D, o) ==
    LET D1 == [D EXCEPT ![o].dealloc = @ + 1]
    IN  CASE D[o].ops = "part" -> pico_blockdev_part_destroy(D1, o)
          [] D[o].ops = "driver" -> [D1 EXCEPT ![o].destroyed = @ + 1]
          [] OTHER -> D1

\* partition.c:41-46: the parent's reference is dropped, the device freed
pico_blockdev_part_destroy(D, o) ==
    LET D1 == IF D[o].parent # NULL THEN pico_object_unref(D, D[o].parent) ELSE D
    IN  [D1 EXCEPT ![o].destroyed = @ + 1]

\* blockdev.c:91-118, the value returned
add_child_ret(D, child, malloc_ok) ==
    IF D[child].parent # NULL THEN -EALREADY
    ELSE IF ~malloc_ok THEN -ENOMEM
    ELSE 0

\* blockdev.c:91-118, the devices after the call
add_child_dev(D, d, child, malloc_ok) ==
    IF add_child_ret(D, child, malloc_ok) # 0
    THEN obj_touch(D, child)
    ELSE LET D1 == [obj_touch(obj_touch(D, child), d) EXCEPT
                        ![d].children = <<child>> \o @,
                        ![child].parent = d]
         IN  pico_object_ref_nolock(pico_object_ref(D1, child), d)

\* malloc in partition.c:101: the lowest address not in use
FreeDevs(D) == {d \in Devs : ~D[d].alloc}
newdev(D) == CHOOSE d \in FreeDevs(D) : \A e \in FreeDevs(D) : d <= e

\* what the scan of a device meets: r, the value pico_blockdev_read_sector
\* returns for sector 0, the bytes 510 and 511 of the sector, and the four
\* entries at 0x1be (partition.c:6-17) with their type and the bytes of
\* start_sect and nr_sects
msdos_partition(sys_ind, start_sect, nr_sects) ==
    [sys_ind |-> sys_ind, start_sect |-> start_sect, nr_sects |-> nr_sects]

EmptyEntry == msdos_partition(0, <<0, 0, 0, 0>>, <<0, 0, 0, 0>>)

Disk(r, b510, b511, entries) ==
    [r |-> r, sect510 |-> b510, sect511 |-> b511, entries |-> entries]

\* a sector 0 with the signature whose first n entries are partitions of 1024
\* sectors from sector 2048 on
MbrWith(n) ==
    Disk(1, 85, 170,
         [i \in 1..4 |-> IF i <= n THEN msdos_partition(131, <<0, 8, 0, 0>>, <<0, 4, 0, 0>>)
                         ELSE EmptyEntry])

\* partition.c:83-90
pico_blockdev_extractle32(src) ==
    src[1] + src[2] * 256 + src[3] * 65536 + src[4] * 16777216

\* the entries the scan of a disk makes a device of (partition.c:96, 123-125)
PartEntries(disk) ==
    IF disk.r = 1 /\ disk.sect510 = 85 /\ disk.sect511 = 170
    THEN {i \in 1..4 : disk.entries[i].sys_ind # 0}
    ELSE {}

RECURSIVE pico_blockdev_register_dev(_, _, _, _)
RECURSIVE pico_blockdev_check_msdos_partition(_, _, _, _, _)
RECURSIVE scan_entries(_, _, _, _, _)

\* partition.c:92-118.  The malloc of the device (line 101) is taken to
\* succeed: the code uses its result unchecked.
pico_blockdev_check_msdos_partition(D, d, source, index, link_ok) ==
    LET p == source[index + 1]
    IN  IF p.sys_ind # 0
        THEN LET start == pico_blockdev_extractle32(p.start_sect)
                 size == pico_blockdev_extractle32(p.nr_sects)
                 nd == newdev(D)
                 D1 == [pico_blockdev_init_dev(D, nd, "part") EXCEPT
                            ![nd].num_sectors = size, ![nd].start_sector = start]
                 r == add_child_ret(D1, nd, link_ok)
                 D2 == add_child_dev(D1, d, nd, link_ok)
             IN  IF r = 0
                 THEN pico_blockdev_register_dev(D2, nd, Disk(1, 85, 170, source),
                                                 link_ok)
                 ELSE D2
        ELSE D

\* partition.c:129-131, the loop from entry i on
scan_entries(D, d, source, i, link_ok) ==
    IF i >= 4 THEN D
    ELSE scan_entries(pico_blockdev_check_msdos_partition(D, d, source, i, link_ok),
                      d, source, i + 1, link_ok)

\* partition.c:120-137
pico_blockdev_scan_partitions(D, d, disk, link_ok) ==
    IF disk.r = 1
    THEN IF disk.sect510 = 85 /\ disk.sect511 = 170
         THEN scan_entries(D, d, disk.entries, 0, link_ok)
         ELSE D
    ELSE D

\* blockdev.c:64-74
pico_blockdev_register_dev(D, d, disk, link_ok) ==
    LET D1 == IF obj_touch(D, d)[d].parent = NULL
              THEN pico_blockdev_scan_partitions(obj_touch(D, d), d, disk, link_ok)
              ELSE obj_touch(D, d)
    IN  pico_object_unref(D1, d)

\* partition.c:64-81: the value returned and what is stored through data
\* (NULL: nothing); drv is what the parent's ioctl returns
pico_blockdev_part_ioctl(D, d, cmd, drv) ==
    IF cmd = PICO_IOCTL_BLKGETSIZE
    THEN [r |-> 0, data |-> <<D[d].num_sectors>>]
    ELSE [r |-> drv, data |-> <<>>]

RECURSIVE pico_blockdev_unregister_dev(_, _)

\* blockdev.c:76-89.  d = NULL: the device was destroyed by the unref, the loop
\* ends and pico_blockdev_unregister_event(NULL) is called.
pico_blockdev_unregister_dev(D, d) ==
    IF d = NULL THEN D
    ELSE IF D[d].children = <<>> THEN obj_touch(D, d)
    ELSE LET link == D[d].children
             D1 == pico_blockdev_unregister_dev(obj_touch(D, d), Head(link))
             D2 == pico_object_unref(D1, d)
             alive == unref_result(D1, d) # NULL
             D3 == IF alive THEN [D2 EXCEPT ![d].children = Tail(link)] ELSE D2
         IN  pico_blockdev_unregister_dev(D3, IF alive THEN d ELSE NULL)

\* the devices of the tree under d
RECURSIVE TreeUnder(_, _, _)
TreeUnder(D, d, depth) ==
    IF depth = 0 THEN {d}
    ELSE {d} \cup UNION {TreeUnder(D, D[d].children[i], depth - 1) :
                            i \in 1..Len(D[d].children)}

NoBThread == [pc |-> "idle", op |-> "none", obj |-> NULL, parent |-> NULL,
              child |-> NULL, to |-> 0, tmp |-> 0, newref |-> 0, ret |-> 0,
              held |-> [d \in Devs |-> 0], calls |-> 0]

BAllIdle == \A t \in Threads : bthr[t].pc = "idle"

\* a thread creates device d: blockdev.c:43-50; it owns the reference
pico_blockdev_init(t, d, ops) ==
    /\ BAllIdle
    /\ ~dev[d].alloc
    /\ dev' = pico_blockdev_init_dev(dev, d, ops)
    /\ bthr' = [bthr EXCEPT ![t].held[d] = 1]
    /\ last' = BCall("blockdev_init", d, 0, {})
    /\ UNCHANGED vfsVars

\* blockdev.h:72-75, run alone by a thread that owns a reference
pico_blockdev_ref(t, d) ==
    /\ BAllIdle
    /\ bthr[t].held[d] >= 1
    /\ dev' = pico_object_ref(dev, d)
    /\ bthr' = [bthr EXCEPT ![t].held[d] = @ + 1, ![t].calls = @ + 1]
    /\ last' = BCall("blockdev_ref", d, d, {})
    /\ UNCHANGED vfsVars

\* blockdev.h:77-80, run alone by a thread that gives up a reference it owns
pico_blockdev_unref(t, d) ==
    /\ BAllIdle
    /\ bthr[t].held[d] >= 1
    /\ dev' = pico_object_unref(dev, d)
    /\ bthr' = [bthr EXCEPT ![t].held[d] = @ - 1, ![t].calls = @ + 1]
    /\ last' = BCall("blockdev_unref", d, unref_result(dev, d), {})
    /\ UNCHANGED vfsVars

\* object.h:66 and 79, assert(object->refcnt != 255)
assert_ref(D, o) == D[o].refcnt # 255

\* object.h:62-73 with its assertion, run alone.  A build with assertions stops
\* the program where the assertion fails; a build with NDEBUG has no assertion.
object_ref(o, ndebug) ==
    /\ BAllIdle
    /\ dev[o].alloc /\ dev[o].destroyed = 0 /\ ~dev[o].aborted
    /\ dev' = IF ~ndebug /\ ~assert_ref(dev, o)
              THEN [dev EXCEPT ![o].aborted = TRUE]
              ELSE pico_object_ref(dev, o)
    /\ last' = BCall("object_ref", o, o, {})
    /\ UNCHANGED bthr
    /\ UNCHANGED vfsVars

\* object.h:75-84 with its assertion
object_ref_nolock(o, ndebug) ==
    /\ BAllIdle
    /\ dev[o].alloc /\ dev[o].destroyed = 0 /\ ~dev[o].aborted
    /\ dev' = IF ~ndebug /\ ~assert_ref(dev, o)
              THEN [dev EXCEPT ![o].aborted = TRUE]
              ELSE pico_object_ref_nolock(dev, o)
    /\ last' = BCall("object_ref_nolock", o, o, {})
    /\ UNCHANGED bthr
    /\ UNCHANGED vfsVars

\* object.h:86-105, by a caller that gives up a reference
object_unref(o) ==
    /\ BAllIdle
    /\ dev[o].alloc /\ dev[o].destroyed = 0 /\ ~dev[o].aborted
    /\ dev[o].refcnt # 0
    /\ dev' = pico_object_unref(dev, o)
    /\ last' = BCall("object_unref", o, unref_result(dev, o), {})
    /\ UNCHANGED bthr
    /\ UNCHANGED vfsVars

\* blockdev.c:64-74, run alone: the caller's reference goes to the registry of
\* devices.  The scan's malloc of a device (partition.c:101) is taken to
\* succeed: the code uses its result unchecked.
pico_blockdev_register(t, d, disk, link_ok) ==
    /\ BAllIdle
    /\ bthr[t].held[d] >= 1
    /\ dev[d].parent = NULL => Cardinality(FreeDevs(dev)) >= Cardinality(PartEntries(disk))
    /\ dev' = pico_blockdev_register_dev(dev, d, disk, link_ok)
    /\ bthr' = [bthr EXCEPT ![t].held[d] = @ - 1, ![t].calls = @ + 1]
    /\ last' = BCallRegister(d, 0, disk, link_ok)
    /\ UNCHANGED vfsVars

\* blockdev.c:34-41 on a partition device that is in its parent's list of
\* children, run alone
pico_blockdev_ioctl(t, d, cmd, drv) ==
    /\ BAllIdle
    /\ dev[d].alloc /\ dev[d].destroyed = 0 /\ dev[d].ops = "part"
    /\ dev[d].parent # NULL
    /\ dev' = IF cmd = PICO_IOCTL_BLKGETSIZE THEN obj_touch(dev, d)
              ELSE obj_touch(obj_touch(dev, d), dev[d].parent)
    /\ bthr' = [bthr EXCEPT ![t].calls = @ + 1]
    /\ last' = BCallIoctl(d, cmd, pico_blockdev_part_ioctl(dev, d, cmd, drv))
    /\ UNCHANGED vfsVars

\* blockdev.c:76-89, run alone on a device that was not destroyed
pico_blockdev_unregister(t, d) ==
    /\ BAllIdle
    /\ dev[d].alloc /\ dev[d].destroyed = 0
    /\ dev' = pico_blockdev_unregister_dev(dev, d)
    /\ bthr' = [bthr EXCEPT ![t].calls = @ + 1]
    /\ last' = BCall("blockdev_unregister", d, 0, TreeUnder(dev, d, NDevs))
    /\ UNCHANGED vfsVars

\* blockdev.c:91-118, run alone
pico_blockdev_add_child(t, d, child, malloc_ok) ==
    /\ BAllIdle
    /\ d # child
    /\ dev[d].alloc /\ dev[d].destroyed = 0
    /\ dev[child].alloc /\ dev[child].destroyed = 0
    /\ dev[child].children = <<>>
    /\ dev' = add_child_dev(dev, d, child, malloc_ok)
    /\ bthr' = [bthr EXCEPT ![t].calls = @ + 1]
    /\ last' = BCall("blockdev_add_child", d, add_child_ret(dev, child, malloc_ok), {child})
    /\ UNCHANGED vfsVars

(* Object and block-device calls that run while other threads run.  A call   *)
(* is a sequence of steps, one per access to a device's fields or critical   *)
(* section; refcnt++ and --refcnt are a load and a store.  bthr[t].pc is the *)
(* step thread t takes next, bthr[t].obj the object of the ref or unref it   *)
(* is in, bthr[t].tmp the count it loaded.                                   *)

RECURSIVE bcalls_made(_)
bcalls_made(n) == IF n = 0 THEN 0 ELSE bthr[n].calls + bcalls_made(n - 1)

\* what a step of an object or block-device call leaves as it was
bstepVars == <<vfs_initialised, s_fd_table, s_vfs, s_vfs_count, heap, nalloc, freed,
               errno, last, owner, oob, mutex, thr, dir>>

\* thread t returns ret from its call
BReturn(t, ret) == bthr' = [bthr EXCEPT ![t].pc = "idle", ![t].ret = ret]

\* a critical section that is entered without being taken (fault injected for
\* C18)
critical_section_enter_missing(o, t) == dev' = dev

\* object.h:66, 89, 127: critical_section_enter_blocking
critical_section_enter_blocking(o, t) ==
    dev[o].cs = 0 /\ dev' = [dev EXCEPT ![o].cs = t]

\* object.h:70, 93, 132: critical_section_exit
critical_section_exit(o) == dev' = [dev EXCEPT ![o].cs = 0]

\* thread t, which owns a reference to o, enters pico_object_ref(o) (the new
\* reference is for thread u) or pico_object_unref(o) (it gives up its own)
object_call(t, op, o, u) ==
    /\ bthr[t].pc = "idle"
    /\ dev[o].alloc
    /\ bthr[t].held[o] >= 1
    /\ bthr' = [bthr EXCEPT ![t].pc = IF op = "ref" THEN "ref_enter" ELSE "unref_enter",
                            ![t].op = op, ![t].obj = o, ![t].to = u,
                            ![t].parent = NULL, ![t].child = NULL,
                            ![t].tmp = 0, ![t].newref = 0, ![t].ret = 0,
                            ![t].held[o] = IF op = "unref" THEN @ - 1 ELSE @,
                            ![t].calls = @ + 1]
    /\ UNCHANGED dev
    /\ UNCHANGED bstepVars

\* object.h:66
ref_enter(t) ==
    /\ bthr[t].pc = "ref_enter"
    /\ critical_section_enter_blocking(bthr[t].obj, t)
    /\ bthr' = [bthr EXCEPT ![t].pc = "ref_load"]
    /\ UNCHANGED bstepVars

\* object.h:67-68: the count is read
ref_load(t) ==
    /\ bthr[t].pc = "ref_load"
    /\ bthr' = [bthr EXCEPT ![t].pc = "ref_store", ![t].tmp = dev[bthr[t].obj].refcnt]
    /\ UNCHANGED dev
    /\ UNCHANGED bstepVars

\* object.h:68: the count is written
ref_store(t) ==
    /\ bthr[t].pc = "ref_store"
    /\ dev' = [dev EXCEPT ![bthr[t].obj].refcnt = (bthr[t].tmp + 1) % 256]
    /\ bthr' = [bthr EXCEPT ![t].pc = "ref_exit"]
    /\ UNCHANGED bstepVars

\* object.h:70-72; in pico_blockdev_add_child (blockdev.c:112-113) the call is
\* followed by pico_object_ref_nolock on the parent
ref_exit(t) ==
    /\ bthr[t].pc = "ref_exit"
    /\ critical_section_exit(bthr[t].obj)
    /\ IF bthr[t].op = "add_child"
       THEN bthr' = [bthr EXCEPT ![t].pc = "nl_load", ![t].obj = bthr[t].parent]
       ELSE bthr' = [bthr EXCEPT ![t].pc = "idle", ![t].ret = bthr[t].obj,
                                 ![bthr[t].to].held[bthr[t].obj] = @ + 1]
    /\ UNCHANGED bstepVars

\* object.h:89
unref_enter(t) ==
    /\ bthr[t].pc = "unref_enter"
    /\ critical_section_enter_blocking(bthr[t].obj, t)
    /\ bthr' = [bthr EXCEPT ![t].pc = "unref_load"]
    /\ UNCHANGED bstepVars

\* object.h:90-91: the count is read
unref_load(t) ==
    /\ bthr[t].pc = "unref_load"
    /\ bthr' = [bthr EXCEPT ![t].pc = "unref_store", ![t].tmp = dev[bthr[t].obj].refcnt]
    /\ UNCHANGED dev
    /\ UNCHANGED bstepVars

\* object.h:91: uint8_t newref = --object->refcnt
unref_store(t) ==
    /\ bthr[t].pc = "unref_store"
    /\ dev' = [dev EXCEPT ![bthr[t].obj].refcnt = (bthr[t].tmp + 255) % 256]
    /\ bthr' = [bthr EXCEPT ![t].pc = "unref_exit",
                            ![t].newref = (bthr[t].tmp + 255) % 256]
    /\ UNCHANGED bstepVars

\* object.h:93
unref_exit(t) ==
    /\ bthr[t].pc = "unref_exit"
    /\ critical_section_exit(bthr[t].obj)
    /\ bthr' = [bthr EXCEPT ![t].pc = "unref_test"]
    /\ UNCHANGED bstepVars

\* object.h:98-104: dealloc and NULL if newref is 0, the object otherwise
unref_test(t) ==
    /\ bthr[t].pc = "unref_test"
    /\ IF bthr[t].newref = 0
       THEN /\ dev' = pico_blockdev_destroy_object(dev, bthr[t].obj)
            /\ BReturn(t, NULL)
       ELSE /\ dev' = dev
            /\ BReturn(t, bthr[t].obj)
    /\ UNCHANGED bstepVars

\* thread t enters pico_blockdev_add_child(d, child)
child_call(t, d, child) ==
    /\ bthr[t].pc = "idle"
    /\ d # child
    /\ dev[d].alloc /\ dev[d].destroyed = 0
    /\ dev[child].alloc /\ dev[child].destroyed = 0
    /\ bthr' = [bthr EXCEPT ![t].pc = "ac_check", ![t].op = "add_child",
                            ![t].obj = NULL, ![t].to = 0,
                            ![t].parent = d, ![t].child = child,
                            ![t].tmp = 0, ![t].newref = 0, ![t].ret = 0,
                            ![t].calls = @ + 1]
    /\ UNCHANGED dev
    /\ UNCHANGED bstepVars

\* blockdev.c:95-102: the child's parent is read, no lock held; malloc
ac_check(t, malloc_ok) ==
    /\ bthr[t].pc = "ac_check"
    /\ IF dev[bthr[t].child].parent # NULL THEN BReturn(t, -EALREADY)
       ELSE IF ~malloc_ok THEN BReturn(t, -ENOMEM)
       ELSE bthr' = [bthr EXCEPT ![t].pc = "ac_lock"]
    /\ UNCHANGED dev
    /\ UNCHANGED bstepVars

\* blockdev.c:104: pico_object_lock(&dev->obj), the parent's critical section
ac_lock(t) ==
    /\ bthr[t].pc = "ac_lock"
    /\ critical_section_enter_blocking(bthr[t].parent, t)
    /\ bthr' = [bthr EXCEPT ![t].pc = "ac_link"]
    /\ UNCHANGED bstepVars

\* blockdev.c:106-108: the link is put in front of the parent's list
ac_link(t) ==
    /\ bthr[t].pc = "ac_link"
    /\ dev' = [dev EXCEPT ![bthr[t].parent].children = <<bthr[t].child>> \o @]
    /\ bthr' = [bthr EXCEPT ![t].pc = "ac_parent"]
    /\ UNCHANGED bstepVars

\* blockdev.c:109, then the call of pico_object_ref(&child->obj) at line 112
ac_parent(t) ==
    /\ bthr[t].pc = "ac_parent"
    /\ dev' = [dev EXCEPT ![bthr[t].child].parent = bthr[t].parent]
    /\ bthr' = [bthr EXCEPT ![t].pc = "ref_enter", ![t].obj = bthr[t].child]
    /\ UNCHANGED bstepVars

\* object.h:79-80 as called at blockdev.c:113: the count is read
nl_load(t) ==
    /\ bthr[t].pc = "nl_load"
    /\ bthr' = [bthr EXCEPT ![t].pc = "nl_store", ![t].tmp = dev[bthr[t].obj].refcnt]
    /\ UNCHANGED dev
    /\ UNCHANGED bstepVars

\* object.h:80: the count is written
nl_store(t) ==
    /\ bthr[t].pc = "nl_store"
    /\ dev' = [dev EXCEPT ![bthr[t].obj].refcnt = (bthr[t].tmp + 1) % 256]
    /\ bthr' = [bthr EXCEPT ![t].pc = "ac_unlock"]
    /\ UNCHANGED bstepVars

\* blockdev.c:115-117
ac_unlock(t) ==
    /\ bthr[t].pc = "ac_unlock"
    /\ critical_section_exit(bthr[t].parent)
    /\ BReturn(t, 0)
    /\ UNCHANGED bstepVars

-----------------------------------------------------------------------------
(* Specifications *)

\* static storage at program start: everything zero
Init ==
    /\ vfs_initialised = FALSE
    /\ s_fd_table = [i \in Rows |-> ZeroRow]
    /\ s_vfs = [i \in Slots |-> NULL]
    /\ s_vfs_count = 0
    /\ heap = [a \in Addrs |-> NoEntry]
    /\ nalloc = 0
    /\ freed = {}
    /\ errno = 0
    /\ last = Call("none", -1, <<>>, 0, NULL, <<>>, <<>>)
    /\ owner = {}
    /\ oob = FALSE
    /\ mutex = 0
    /\ thr = [t \in Threads |-> IdleThread]
    /\ dev = [d \in Devs |-> NoDev]
    /\ bthr = [t \in Threads |-> NoBThread]
    /\ dir = NoDir

\* what a backend operation may return: an error, zero, a positive result
BackendRets == {-EIO, 0, 1}

\* local descriptors a backend's open hands out
LocalFds == {7, 8}

\* vtables drivers register: complete, without read..ioctl, without close, empty
AllOps == OpNames
OpenCloseOps == {"open", "close"}
OpenReadOps == {"open", "read"}
NoOps == {}

\* descriptors handed to descriptor-indexed calls
CallFds == {-1, 0, 1, 2, MAX_FDS - 1, MAX_FDS}

\* descriptor ranges handed to pico_vfs_register_fd_range
FdRanges == {<<0, 1>>, <<0, MAX_FDS - 1>>, <<1, MAX_FDS - 1>>, <<2, 1>>,
             <<-1, 0>>, <<MAX_FDS - 1, MAX_FDS>>}

\* prefixes handed to pico_vfs_register: four valid ones, then one of length 1,
\* one without the leading '/', one with a trailing '/'
RegPrefixes == {<<>>, <<"/", "a">>, <<"/", "a", "a">>, <<"/", "a", "/", "a">>,
                <<"/">>, <<"a", "a">>, <<"/", "a", "/">>}

\* An input that cannot reach the call is held at one value: the result of a
\* backend operation that is not invoked, the local descriptor of a failed open.
NotInvoked(fd, name) ==
    VFSDECL_R(fd).bad \/ name \notin heap[VFSDECL_R(fd).vfs].ops

OpenInputs(p, b, l, c) ==
    LET vfs == pico_vfs_get_vfs_entry_for_path(p)
        opens == vfs # NULL /\ "open" \in heap[vfs].ops
    IN  /\ (~opens => b = 0)
        /\ (~(opens /\ b >= 0) => l = 7)
        /\ (~(opens /\ b = 0 /\ fd_scan(0) >= MAX_FDS /\ "close" \in heap[vfs].ops)
              => c = 0)

StatInputs(p, b) ==
    LET vfs == pico_vfs_get_vfs_entry_for_path(p)
    IN  ~(vfs # NULL /\ "stat" \in heap[vfs].ops) => b = 0

OpendirInputs(p, d) ==
    LET vfs == pico_vfs_get_vfs_entry_for_path(p)
    IN  ~(vfs # NULL /\ "opendir" \in heap[vfs].ops /\ heap[vfs].impl = "driver") => d = 1

\* A call that leaves the program state alone is not followed by another such
\* call: that one would start from the same program state, which the call
\* before them has already left.
PureOps == FdOpNames \cup {"stat", "opendir"}

Fresh == last.op \notin PureOps

\* paths handed to opendir and open under SpecPath
ShortPaths == PathsUpTo(2)

\* Spec: the life of registrations and descriptors.  Drivers mount at /a and
\* unmount, a range of descriptors is reserved, files are opened, read, closed.
Next ==
    \/ \E m \in BOOLEAN : pico_vfs_init(m)
    \/ \E o \in {AllOps, OpenReadOps} :
           nalloc < MaxAlloc /\ pico_vfs_register(<<"/", "a">>, o, TRUE)
    \/ \E i \in Slots : pico_vfs_unregister(i)
    \/ nalloc < MaxAlloc /\ pico_vfs_register_fd_range(AllOps, 0, 1, TRUE, TRUE)
    \/ \E b \in BackendRets, l \in LocalFds :
           /\ OpenRows < MaxOpen
           /\ OpenInputs(<<"/", "a", "/", "b">>, b, l, 0)
           /\ pico_vfs_open(<<"/", "a", "/", "b">>, b, l, 0)
    \/ \E fd \in {0, 2}, b \in BackendRets :
           (NotInvoked(fd, "close") => b = 0) /\ pico_vfs_close(fd, b)
    \/ \E fd \in {0, 2}, b \in BackendRets :
           /\ Fresh
           /\ NotInvoked(fd, "read") => b = 0
           /\ VFS_GENERIC_REENT_CALL("read", fd, b)

Spec == Init /\ [][Next]_vars

\* SpecTable: the descriptor table.  No driver unmounts; every range and every
\* descriptor is tried.
NextTable ==
    \/ pico_vfs_init(TRUE)
    \/ \E o \in {AllOps, OpenReadOps} :
           nalloc < MaxAlloc /\ pico_vfs_register(<<"/", "a">>, o, TRUE)
    \/ \E r \in FdRanges, past_free \in BOOLEAN :
           /\ nalloc < MaxAlloc
           /\ pico_vfs_register_fd_range(AllOps, r[1], r[2], TRUE, past_free)
    \/ \E p \in {<<"/", "a", "/", "b">>, <<"/", "b">>},
          b \in BackendRets, l \in LocalFds, c \in BackendRets :
           /\ OpenRows < MaxOpen
           /\ OpenInputs(p, b, l, c)
           /\ pico_vfs_open(p, b, l, c)
    \/ \E fd \in CallFds, b \in BackendRets :
           (NotInvoked(fd, "close") => b = 0) /\ pico_vfs_close(fd, b)

SpecTable == Init /\ [][NextTable]_vars

\* SpecDispatch: the descriptor-indexed calls, every one of them on every kind
\* of descriptor and vtable.
NextDispatch ==
    \/ pico_vfs_init(TRUE)
    \/ \E o \in {AllOps, OpenCloseOps} :
           nalloc < MaxAllocDispatch /\ pico_vfs_register(<<"/", "a">>, o, TRUE)
    \/ \E i \in Slots : pico_vfs_unregister(i)
    \/ \E o \in {AllOps, NoOps} :
           nalloc < MaxAllocDispatch /\ pico_vfs_register_fd_range(o, 0, 1, TRUE, TRUE)
    \/ /\ OpenRows < MaxOpenDispatch
       /\ pico_vfs_open(<<"/", "a">>, 0, 7, 0)
    \/ \E fd \in CallFds, b \in BackendRets :
           (NotInvoked(fd, "close") => b = 0) /\ pico_vfs_close(fd, b)
    \/ \E n \in FdOpNames, fd \in CallFds, b \in BackendRets :
           /\ Fresh
           /\ NotInvoked(fd, n) => b = 0
           /\ VFS_GENERIC_REENT_CALL(n, fd, b)

SpecDispatch == Init /\ [][NextDispatch]_vars

\* SpecPath: the path router.  Drivers mount at every prefix; every path is
\* resolved.
NextPath ==
    \/ \E m \in BOOLEAN : pico_vfs_init(m)
    \/ \E p \in RegPrefixes, o \in {AllOps, NoOps}, m \in BOOLEAN :
           nalloc < MaxAllocPath /\ pico_vfs_register(p, o, m)
    \/ \E i \in Slots : pico_vfs_unregister(i)
    \/ nalloc < MaxAllocPath /\ pico_vfs_register_fd_range(AllOps, 0, 1, TRUE, TRUE)
    \/ \E p \in Paths, b \in {-EIO, 0} :
           Fresh /\ last.op # "open" /\ StatInputs(p, b) /\ pico_vfs_stat(p, b)
    \/ \E p \in ShortPaths, d \in {NULL, 1} :
           Fresh /\ last.op # "open" /\ OpendirInputs(p, d) /\ pico_vfs_opendir(p, d)
    \/ \E p \in ShortPaths, b \in {-EIO, 1} :
           Fresh /\ last.op # "open" /\ OpenInputs(p, b, 7, 0) /\ pico_vfs_open(p, b, 7, 0)

SpecPath == Init /\ [][NextPath]_vars

\* prefixes handed to pico_vfs_register under SpecRegistry: two valid ones, the
\* longest valid one, then one of length 1, one without the leading '/', one
\* with a trailing '/', one longer than PICO_VFS_BASE_PATH_MAX
LongestPrefix == [k \in 1..PICO_VFS_BASE_PATH_MAX |-> IF k = 1 THEN "/" ELSE "a"]

TooLongPrefix == [k \in 1..(PICO_VFS_BASE_PATH_MAX + 1) |-> IF k = 1 THEN "/" ELSE "a"]

RegistryPrefixes == {<<>>, <<"/", "a">>, LongestPrefix,
                     <<"/">>, <<"a", "a">>, <<"/", "a", "/">>, TooLongPrefix}

\* SpecRegistry: the registry.  Drivers mount at valid and invalid prefixes
\* until the slots run out, and unmount.
NextRegistry ==
    \/ pico_vfs_init(TRUE)
    \/ \E p \in RegistryPrefixes, m \in BOOLEAN :
           nalloc < MaxAllocRegistry /\ pico_vfs_register(p, AllOps, m)
    \/ \E i \in Slots : pico_vfs_unregister(i)

SpecRegistry == Init /\ [][NextRegistry]_vars

\* what the backend operation thread t is in may return: any read returns 0, a
\* close fails or succeeds, an open succeeds with 0 or with a positive value
ThreadRets(t) ==
    CASE thr[t].op = "close" -> {-EIO, 0}
      [] thr[t].op = "open" /\ thr[t].bop = "open" -> {0, 1}
      [] OTHER -> {0}

\* what the threads call: the descriptor and the slot the first open and the
\* first register hand out
ThreadCalls == {<<"read", 0>>, <<"close", 0>>, <<"open", -1>>, <<"register", -1>>,
                <<"unregister", 1>>}

\* SpecThreads: threads in the VFS.  A driver is mounted, a file opened and the
\* rest of the table reserved by calls that run alone; then the threads make
\* their calls, a step at a time, interleaved in every way.
NextThreads ==
    \/ pico_vfs_init(TRUE)
    \/ NoCallYet /\ nalloc < MaxAllocThreads /\ pico_vfs_register(ThreadPrefix, AllOps, TRUE)
    \/ /\ NoCallYet /\ nalloc < MaxAllocThreads
       /\ pico_vfs_register_fd_range(AllOps, 1, MAX_FDS - 1, TRUE, TRUE)
    \/ NoCallYet /\ OpenRows < MaxOpenThreads /\ pico_vfs_open(ThreadPath, 0, 7, 0)
    \/ \E t \in Threads, c \in ThreadCalls :
           calls_made(Cardinality(Threads)) < MaxThreadCalls /\ thread_call(t, c[1], c[2])
    \/ \E t \in Threads : decl_vfs(t)
    \/ \E t \in Threads : decl_local_fd(t)
    \/ \E t \in Threads, h \in BOOLEAN : call(t, h)
    \/ \E t \in Threads : call_lost(t)
    \/ \E t \in Threads : \E b \in ThreadRets(t) : backend_return(t, b, 8)
    \/ \E t \in Threads : close_lock(t)
    \/ \E t \in Threads : close_free(t)
    \/ \E t \in Threads : close_unlock(t)
    \/ \E t \in Threads : open_resolve(t)
    \/ \E t \in Threads : open_lock(t)
    \/ \E t \in Threads : open_scan(t)
    \/ \E t \in Threads : open_unlock(t)
    \/ \E t \in Threads : open_unlock_full(t)
    \/ \E t \in Threads, h \in BOOLEAN : open_close(t, h)
    \/ \E t \in Threads : reg_check(t, TRUE)
    \/ \E t \in Threads : reg_scan(t)
    \/ \E t \in Threads : reg_count(t)
    \/ \E t \in Threads : reg_store(t)
    \/ \E t \in Threads : hook_return(t)
    \/ \E t \in Threads : unreg_lock(t)
    \/ \E t \in Threads : unreg_detach(t)
    \/ \E t \in Threads : unreg_unlock(t)

SpecThreads == Init /\ [][NextThreads]_vars

\* a step of the call thread t is in
ThreadStep(t) ==
    \/ decl_vfs(t)
    \/ decl_local_fd(t)
    \/ \E h \in BOOLEAN : call(t, h)
    \/ call_lost(t)
    \/ \E b \in ThreadRets(t) : backend_return(t, b, 8)
    \/ close_lock(t)
    \/ close_free(t)
    \/ close_unlock(t)
    \/ open_resolve(t)
    \/ open_lock(t)
    \/ open_scan(t)
    \/ open_unlock(t)
    \/ open_unlock_full(t)
    \/ \E h \in BOOLEAN : open_close(t, h)
    \/ reg_check(t, TRUE)
    \/ reg_scan(t)
    \/ reg_count(t)
    \/ reg_store(t)
    \/ hook_return(t)
    \/ unreg_lock(t)
    \/ unreg_detach(t)
    \/ unreg_unlock(t)

\* SpecThreadsFair: SpecThreads with a fair scheduler and backends that
\* return: a thread that can take the next step of its call does take it.
\* Whether a thread makes another call is left open.
SpecThreadsFair == SpecThreads /\ \A t \in Threads : WF_vars(ThreadStep(t))

\* SpecBlockdev: block-device calls that thread 1 makes, each run alone.
\* Devices 1 and 2 are created by a driver; the others are the ones the scan
\* allocates.
DriverDevs == {1, 2}

\* thread 1 may make another call
MoreCalls == bthr[1].calls < MaxBlockCalls

NextBlockdev ==
    \/ \E d \in DriverDevs : pico_blockdev_init(1, d, "driver")
    \/ \E d \in Devs :
           MoreCalls /\ bthr[1].held[d] < MaxRefs /\ pico_blockdev_ref(1, d)
    \/ \E d \in Devs : MoreCalls /\ pico_blockdev_unref(1, d)
    \/ \E d \in Devs, n \in 0..MaxParts, m \in BOOLEAN :
           MoreCalls /\ pico_blockdev_register(1, d, MbrWith(n), m)
    \/ \E d \in Devs : MoreCalls /\ pico_blockdev_unregister(1, d)
    \/ \E d, c \in Devs, m \in BOOLEAN :
           MoreCalls /\ pico_blockdev_add_child(1, d, c, m)

SpecBlockdev == Init /\ [][NextBlockdev]_vars


\* SpecObject: thread 1 creates device 1; the threads then take references to
\* it, for themselves or for each other, and give up references they own.
NextObject ==
    \/ pico_blockdev_init(1, 1, "driver")
    \/ \E t, u \in Threads, op \in {"ref", "unref"} :
           /\ bcalls_made(Cardinality(Threads)) < MaxObjectCalls
           /\ object_call(t, op, 1, u)
    \/ \E t \in Threads : ref_enter(t)
    \/ \E t \in Threads : ref_load(t)
    \/ \E t \in Threads : ref_store(t)
    \/ \E t \in Threads : ref_exit(t)
    \/ \E t \in Threads : unref_enter(t)
    \/ \E t \in Threads : unref_load(t)
    \/ \E t \in Threads : unref_store(t)
    \/ \E t \in Threads : unref_exit(t)
    \/ \E t \in Threads : unref_test(t)

SpecObject == Init /\ [][NextObject]_vars

\* SpecChildren: thread 1 creates devices 1, 2 and 3; the threads then add
\* device 3 as a child of device 1 or 2.
ChildDevs == {1, 2, 3}

NextChildren ==
    \/ \E d \in ChildDevs : pico_blockdev_init(1, d, "driver")
    \/ \E t \in Threads, d \in {1, 2} :
           /\ bcalls_made(Cardinality(Threads)) < MaxChildCalls
           /\ child_call(t, d, 3)
    \/ \E t \in Threads, m \in BOOLEAN : ac_check(t, m)
    \/ \E t \in Threads : ac_lock(t)
    \/ \E t \in Threads : ac_link(t)
    \/ \E t \in Threads : ac_parent(t)
    \/ \E t \in Threads : ref_enter(t)
    \/ \E t \in Threads : ref_load(t)
    \/ \E t \in Threads : ref_store(t)
    \/ \E t \in Threads : ref_exit(t)
    \/ \E t \in Threads : nl_load(t)
    \/ \E t \in Threads : nl_store(t)
    \/ \E t \in Threads : ac_unlock(t)

SpecChildren == Init /\ [][NextChildren]_vars

\* SpecReaddir: drivers mount at prefixes, reserve descriptors and unmount;
\* then the root directory is opened and read to its end and beyond, the
\* registry staying as it is.
ReaddirPrefixes == {<<>>, <<"/", "a">>, <<"/", "a", "/", "a">>}

NextReaddir ==
    \/ pico_vfs_init(TRUE)
    \/ \E p \in ReaddirPrefixes :
           /\ ~dir.open /\ nalloc < MaxAllocReaddir
           /\ pico_vfs_register(p, AllOps, TRUE)
    \/ /\ ~dir.open /\ nalloc < MaxAllocReaddir
       /\ pico_vfs_register_fd_range(AllOps, 0, 1, TRUE, TRUE)
    \/ \E i \in Slots : ~dir.open /\ pico_vfs_unregister(i)
    \/ ~dir.open /\ pico_vfs_opendir(<<"/">>, 1)
    \/ dir.calls < MaxReaddir /\ pico_vfs_readdir(NULL)

SpecReaddir == Init /\ [][NextReaddir]_vars

\* SpecPartitions: thread 1 creates the driver devices 1 and 2, takes further
\* references, makes one the child of the other, registers them over every
\* sector 0 of Disks and asks the partition devices for their size.
EntryKinds ==
    {msdos_partition(0, <<0, 8, 0, 0>>, <<0, 4, 0, 0>>),
     msdos_partition(131, <<0, 8, 0, 0>>, <<0, 4, 0, 0>>),
     msdos_partition(12, <<1, 2, 3, 4>>, <<255, 255, 255, 127>>)}

\* the tables of four entries with at most MaxParts partitions
Tables ==
    {e \in [1..4 -> EntryKinds] :
        Cardinality({i \in 1..4 : e[i].sys_ind # 0}) <= MaxParts}

\* what reading sector 0 returns, and the bytes 510 and 511 read
ReadRets == {-EIO, 0, 1, 2}
Signatures == {<<85, 170>>, <<170, 85>>, <<85, 0>>}

\* every table on a sector that is read and signed, one table of partitions
\* on every other sector
Disks ==
    {Disk(1, 85, 170, e) : e \in Tables}
        \cup {Disk(r, g[1], g[2], MbrWith(MaxParts).entries) :
                  r \in ReadRets, g \in Signatures}

MorePartCalls == bthr[1].calls < MaxPartCalls

NextPartitions ==
    \/ \E d \in DriverDevs : pico_blockdev_init(1, d, "driver")
    \/ \E d \in DriverDevs :
           MorePartCalls /\ bthr[1].held[d] < MaxRefs /\ pico_blockdev_ref(1, d)
    \/ MorePartCalls /\ pico_blockdev_add_child(1, 1, 2, TRUE)
    \/ \E d \in DriverDevs, disk \in Disks, m \in BOOLEAN :
           MorePartCalls /\ pico_blockdev_register(1, d, disk, m)
    \/ \E d \in Devs, cmd \in {PICO_IOCTL_BLKGETSIZE, PICO_IOCTL_BLKSSZGET},
          drv \in {-ENOSYS, 0} :
           MorePartCalls /\ pico_blockdev_ioctl(1, d, cmd, drv)

SpecPartitions == Init /\ [][NextPartitions]_vars

\* SpecRefcount: one object, referenced and unreferenced one call after the
\* other through the whole range of its 8-bit count, in either build.
NextRefcount ==
    \/ pico_blockdev_init(1, 1, "driver")
    \/ \E ndebug \in BOOLEAN : object_ref(1, ndebug)
    \/ \E ndebug \in BOOLEAN : object_ref_nolock(1, ndebug)
    \/ object_unref(1)

SpecRefcount == Init /\ [][NextRefcount]_vars

-----------------------------------------------------------------------------
(* Claims *)

Occupied == {i \in Slots : s_vfs[i] # NULL}

\* the calls that take a descriptor
FdCalls == FdOpNames \cup {"close"}

\* the calls that take a path
PathCalls == {"open", "stat", "opendir"}

\* C1: once the VFS is initialised, every descriptor-table row is free
\* (vfs_index = -1) or its vfs_index names a registry slot that holds a
\* registered backend.
C1_RowsFreeOrRegistered ==
    vfs_initialised =>
        \A i \in Rows :
            \/ s_fd_table[i].vfs_index = -1
            \/ /\ s_fd_table[i].vfs_index \in Slots
               /\ s_vfs[s_fd_table[i].vfs_index] # NULL

\* C2: a descriptor-indexed call on a descriptor that open returned and that is
\* not closed invokes no backend but the registration that served that open,
\* and passes it the local descriptor that open produced.
C2_SameRegistration ==
    [][\A w \in owner :
           (last'.op \in FdCalls /\ last'.fd = w.fd) =>
               \A k \in 1..Len(last'.inv) :
                   last'.inv[k].ctx = w.reg /\ last'.inv[k].lfd = w.lfd]_vars

\* slots whose non-empty prefix matches path p: it is a prefix of p and, when
\* shorter than p, is followed in p by '/'
PrefixMatches(p) ==
    {i \in Occupied :
        LET e == heap[s_vfs[i]]
            n == Len(e.path_prefix)
        IN  /\ e.path_prefix_len # LEN_PATH_PREFIX_IGNORED
            /\ n > 0
            /\ n <= Len(p)
            /\ \A k \in 1..n : p[k] = e.path_prefix[k]
            /\ (n < Len(p) => p[n + 1] = "/")}

\* slots that hold a backend registered with the empty prefix
DefaultSlots == {i \in Occupied : heap[s_vfs[i]].path_prefix_len = 0}

\* C3: a path-indexed call resolves its path to a backend whose prefix is the
\* longest matching one; if no non-empty prefix matches, to an empty-prefix
\* backend if one is registered, otherwise to no backend.
C3_LongestPrefix ==
    last.op \in PathCalls =>
        IF PrefixMatches(last.path) # {}
        THEN /\ last.vfs # NULL
             /\ heap[last.vfs].index \in PrefixMatches(last.path)
             /\ \A j \in PrefixMatches(last.path) :
                    Len(heap[s_vfs[j]].path_prefix) <= Len(heap[last.vfs].path_prefix)
        ELSE IF DefaultSlots # {}
        THEN last.vfs # NULL /\ heap[last.vfs].index \in DefaultSlots
        ELSE last.vfs = NULL

\* C3 witness: with /a and /a/a both mounted, stat("/a/a") resolved to /a/a
C3_Witness ==
    /\ last.op = "stat"
    /\ last.path = <<"/", "a", "/", "a">>
    /\ last.vfs # NULL
    /\ heap[last.vfs].path_prefix = <<"/", "a", "/", "a">>
    /\ \E i \in Occupied : heap[s_vfs[i]].path_prefix = <<"/", "a">>

\* C4: when several occupied slots hold the prefix of the backend a path
\* resolves to, the backend is the one in the lowest-numbered of those slots.
C4_FirstOfEqualPrefixes ==
    (last.op \in PathCalls /\ last.vfs # NULL) =>
        \A i \in Occupied :
            (/\ heap[s_vfs[i]].path_prefix_len # LEN_PATH_PREFIX_IGNORED
             /\ heap[s_vfs[i]].path_prefix = heap[last.vfs].path_prefix)
                => heap[last.vfs].index <= i

\* C5: a successful pico_vfs_open returns the lowest free row, sets it to
\* (index of the resolving backend, the backend's local descriptor, not
\* permanent) and changes no other row.
C5_OpenLowestFree ==
    [][(last'.op = "open" /\ last'.ret >= 0) =>
           LET free == {i \in Rows : s_fd_table[i].vfs_index = -1}
           IN  /\ last'.ret \in free
               /\ \A j \in free : last'.ret <= j
               /\ s_fd_table' =
                      [s_fd_table EXCEPT ![last'.ret] =
                           [vfs_index |-> heap[last'.vfs].index,
                            local_fd |-> last'.inv[1].lfd,
                            permanent |-> FALSE]]]_vars

\* C6: when every row is occupied and the backend's open succeeds,
\* pico_vfs_open returns -1 with ENFILE, closes the local descriptor it
\* obtained once (if the backend has a close) and leaves the table unchanged.
C6_FullTable ==
    [][(/\ last'.op = "open"
        /\ \A i \in Rows : s_fd_table[i].vfs_index # -1
        /\ Len(last'.inv) >= 1
        /\ last'.inv[1].res >= 0) =>
           /\ last'.ret = -1
           /\ errno' = ENFILE
           /\ s_fd_table' = s_fd_table
           /\ "close" \in heap[last'.vfs].ops =>
                  /\ Len(last'.inv) = 2
                  /\ last'.inv[2].op = "close"
                  /\ last'.inv[2].ctx = last'.inv[1].ctx
                  /\ last'.inv[2].lfd = last'.inv[1].lfd]_vars

\* C7: pico_vfs_close(d) frees row d exactly when the backend's close returned
\* success and the row is not permanent; otherwise the table is unchanged.
C7_CloseFrees ==
    [][last'.op = "close" =>
           IF /\ Len(last'.inv) = 1
              /\ last'.inv[1].res >= 0
              /\ ~s_fd_table[last'.fd].permanent
           THEN s_fd_table' = [s_fd_table EXCEPT ![last'.fd] = FD_TABLE_ENTRY_UNUSED]
           ELSE s_fd_table' = s_fd_table]_vars

\* C8: a descriptor-indexed call whose backend operation returns a negative v
\* sets the error channel to -v and returns -1; one whose backend operation
\* returns a non-negative value returns it and leaves the error channel alone.
C8_ReturnConvention ==
    (last.op \in FdCalls /\ Len(last.inv) = 1) =>
        IF last.inv[1].res < 0
        THEN errno = -last.inv[1].res /\ last.ret = -1
        ELSE last.ret = last.inv[1].res /\ errno = 0

\* C9: a descriptor-indexed call fails with EBADF, invoking no backend, when its
\* descriptor is out of range, its row is free or its row names a slot that
\* holds no backend; otherwise it fails with ENOSYS when the backend lacks the
\* operation.
C9_BadfBeforeNosys ==
    [][last'.op \in FdCalls =>
           LET fd == last'.fd
               index == s_fd_table[fd].vfs_index
           IN  IF fd < 0 \/ fd >= MAX_FDS
               THEN last'.ret = -1 /\ errno' = EBADF /\ last'.inv = <<>>
               ELSE IF index = -1 \/ s_vfs[index] = NULL
               THEN last'.ret = -1 /\ errno' = EBADF /\ last'.inv = <<>>
               ELSE last'.op \notin heap[s_vfs[index]].ops =>
                        last'.ret = -1 /\ errno' = ENOSYS /\ last'.inv = <<>>]_vars

\* C9 witness: a read on a row whose slot was unregistered has failed with EBADF
C9_Witness ==
    /\ last.op = "read"
    /\ last.fd \in Rows
    /\ s_fd_table[last.fd].vfs_index \in Slots
    /\ s_vfs[s_fd_table[last.fd].vfs_index] = NULL
    /\ last.ret = -1
    /\ errno = EBADF

\* C10: a path-indexed call fails with ENOENT when no backend resolves and with
\* ENOSYS when the backend lacks the operation; it returns -1 (opendir: null).
C10_PathErrors ==
    last.op \in PathCalls =>
        /\ last.vfs = NULL =>
               errno = ENOENT /\ last.ret = IF last.op = "opendir" THEN NULL ELSE -1
        /\ (last.vfs # NULL /\ last.op \notin heap[last.vfs].ops) =>
               errno = ENOSYS /\ last.ret = IF last.op = "opendir" THEN NULL ELSE -1

\* a prefix pico_vfs_register accepts: empty, or of length 2 up to
\* PICO_VFS_BASE_PATH_MAX, starting with '/' and not ending with '/'
ValidPrefix(p) ==
    \/ Len(p) = 0
    \/ /\ Len(p) >= 2
       /\ Len(p) <= PICO_VFS_BASE_PATH_MAX
       /\ p[1] = "/"
       /\ p[Len(p)] # "/"

FreeSlots == Slots \ Occupied

C11_WitnessFull ==
    /\ last.op = "register"
    /\ ValidPrefix(last.path)
    /\ last.ret < 0
    /\ FreeSlots = {}

\* C12: a pico_vfs_register that succeeds emits the registration notification
\* once and one that fails emits none; a pico_vfs_unregister of an occupied
\* slot emits the unregistration notification once, one of a free slot fails
\* and emits none.
C12_NotificationsFollowSuccess ==
    /\ last.op = "register" =>
           IF last.ret >= 0
           THEN last.ev = <<Event("register", last.path)>>
           ELSE last.ev = <<>>
    /\ last.op = "unregister" =>
           IF last.vfs # NULL
           THEN last.ret = 0 /\ Len(last.ev) = 1 /\ last.ev[1].kind = "deregister"
           ELSE last.ret < 0 /\ last.ev = <<>>

\* the table holds what tbl held: occupied rows are equal, free rows are free
\* (pico_vfs_init leaves local_fd of a free row at 0, a roll-back sets it to -1)
SameRows(tbl) ==
    \A i \in Rows :
        \/ s_fd_table'[i] = tbl[i]
        \/ s_fd_table'[i].vfs_index = -1 /\ tbl[i].vfs_index = -1

\* C13: pico_vfs_register_fd_range on a range [min, max] of the table that holds
\* an occupied row fails reporting EINVAL and leaves every row as it was; on
\* success every row of the range is permanent and names the new backend.
C13_RangeAllOrNothing ==
    [][(/\ last'.op = "register_fd_range"
        /\ 0 <= last'.fd
        /\ last'.fd <= last'.max_fd
        /\ last'.max_fd < MAX_FDS) =>
           IF \E i \in last'.fd..last'.max_fd : s_fd_table[i].vfs_index # -1
           THEN /\ \/ last'.ret \in {EINVAL, -EINVAL}
                   \/ last'.ret = -1 /\ errno' = EINVAL
                /\ SameRows(s_fd_table)
           ELSE last'.ret >= 0 =>
                    \A i \in Rows :
                        s_fd_table'[i] =
                            IF i \in last'.fd..last'.max_fd
                            THEN [vfs_index |-> last'.ret, local_fd |-> i,
                                  permanent |-> TRUE]
                            ELSE s_fd_table[i]]_vars

\* C14: while a thread is inside a backend operation it invoked through
\* descriptor d, no step of another thread changes row d.
C14_RowStableDuringBackendCall ==
    [][\A t \in Threads :
           (/\ thr[t].op \in FdCalls
            /\ thr[t].pc = "backend"
            /\ thr'[t].pc = "backend") =>
               s_fd_table'[thr[t].fd] = s_fd_table[thr[t].fd]]_vars

\* thread t returns from pico_vfs_open in this step
OpenReturns(t) ==
    thr[t].op = "open" /\ thr[t].pc # "idle" /\ thr'[t].pc = "idle"

\* C15: a row is marked free only by a close whose backend close has returned,
\* and an open that succeeds returns a descriptor that no other open has handed
\* out and that is still open (in particular not the d of a close in progress,
\* and not the descriptor of another concurrent open).
C15_CloseThenReuse ==
    [][/\ \A d \in Rows :
              (/\ vfs_initialised
               /\ s_fd_table[d].vfs_index # -1
               /\ s_fd_table'[d].vfs_index = -1) =>
                  \E t \in Threads :
                      thr[t].op = "close" /\ thr[t].fd = d /\ thr[t].pc = "close_free"
       /\ \A t \in Threads :
              (OpenReturns(t) /\ thr'[t].ret >= 0) =>
                  \A w \in owner : w.fd # thr'[t].ret]_vars

\* C16: two threads whose pico_vfs_register calls both succeeded, and whose
\* entries were not unregistered since, hold distinct slot indices, and each
\* slot holds the entry of its call.
C16_RegistrationsKept ==
    \A t1, t2 \in Threads :
        (/\ t1 # t2
         /\ thr[t1].pc = "idle" /\ thr[t1].op = "register" /\ thr[t1].ret >= 0
         /\ thr[t2].pc = "idle" /\ thr[t2].op = "register" /\ thr[t2].ret >= 0
         /\ thr[t1].entry \notin freed
         /\ thr[t2].entry \notin freed) =>
            /\ thr[t1].ret # thr[t2].ret
            /\ s_vfs[thr[t1].ret] = thr[t1].entry
            /\ s_vfs[thr[t2].ret] = thr[t2].entry

\* C17: a thread that is inside a backend operation or a notification hook does
\* not hold s_fd_table_mutex.
C17_NoLockInBackendOrHook ==
    \A t \in Threads : thr[t].pc \in {"backend", "hook"} => mutex # t

\* C17 witness: one thread is in the backend's close that pico_vfs_open calls
\* after it found the table full (it has locked and unlocked), another in the
\* hook that pico_vfs_unregister calls after it detached an entry
C17_Witness ==
    \E t, u \in Threads :
        /\ thr[t].pc = "backend" /\ thr[t].op = "open" /\ thr[t].bop = "close"
        /\ thr[u].pc = "hook" /\ thr[u].op = "unregister"

\* C19: after pico_blockdev_unregister on the root of a tree with at least one
\* partition child, the destructor of every device of the tree (root and
\* children) has run exactly once and no device was accessed after its destroy.
C19_UnregisterDestroysTree ==
    (/\ last.op = "blockdev_unregister"
     /\ \E c \in last.tree : c # last.dev /\ dev[c].ops = "part") =>
        \A d \in last.tree : dev[d].destroyed = 1 /\ ~dev[d].uaf

\* every reference to o was given up and every call on o has returned
AllReleased(o) == \A t \in Threads : bthr[t].pc = "idle" /\ bthr[t].held[o] = 0

RECURSIVE LinksTo(_, _)
LinksTo(c, n) ==
    IF n = 0 THEN 0
    ELSE Cardinality({i \in 1..Len(dev[n].children) : dev[n].children[i] = c})
         + LinksTo(c, n - 1)

\* C20: pico_blockdev_add_child on a child that has a parent returns -EALREADY
\* and changes no device; and, whatever the interleaving of add_child calls,
\* once they have returned every device is in at most one child list, its
\* parent pointer names the owner of that list, and every successful add has
\* raised the count of the child and of the parent by one.
C20_AddChildOnce ==
    [][/\ \A t \in Threads :
              (/\ bthr[t].pc = "ac_check"
               /\ bthr'[t].pc # "ac_check"
               /\ dev[bthr[t].child].parent # NULL) =>
                  /\ bthr'[t].pc = "idle"
                  /\ bthr'[t].ret = -EALREADY
                  /\ dev' = dev
       /\ BAllIdle' =>
              \A d \in Devs :
                  /\ LinksTo(d, NDevs)' <= 1
                  /\ \A p \in Devs :
                         (\E i \in 1..Len(dev'[p].children) : dev'[p].children[i] = d) =>
                             dev'[d].parent = p
                  /\ dev'[d].alloc =>
                         dev'[d].refcnt = 1 + Len(dev'[d].children) + LinksTo(d, NDevs)']_vars

\* C22: a path-indexed call that resolves path p to a backend with prefix P
\* hands the backend p with the leading P removed, and "/" when p is P.
C22_PathWithinBackend ==
    (last.op \in PathCalls /\ last.vfs # NULL /\ last.inv # <<>>) =>
        LET P == heap[last.vfs].path_prefix
            handed == last.inv[1].path
        IN  IF last.path = P
            THEN handed = <<"/">>
            ELSE P \o handed = last.path

\* C22 witness: stat of the mount point /a itself reached the backend mounted
\* there, with the path "/"
C22_Witness ==
    /\ last.op = "stat"
    /\ last.path = <<"/", "a">>
    /\ last.vfs # NULL
    /\ heap[last.vfs].path_prefix = <<"/", "a">>
    /\ last.inv # <<>>
    /\ last.inv[1].path = <<"/">>

\* C26: a non-negative value returned by pico_vfs_open is the index of a row
\* that is occupied when open returns and records the backend that resolved the
\* path and the local descriptor that backend's open produced.
C26_OpenReturnsItsRow ==
    (last.op = "open" /\ last.ret >= 0) =>
        /\ last.ret \in Rows
        /\ last.vfs # NULL
        /\ s_fd_table[last.ret].vfs_index = heap[last.vfs].index
        /\ last.inv # <<>>
        /\ s_fd_table[last.ret].local_fd = last.inv[1].lfd

\* a range pico_vfs_register_fd_range must refuse: it leaves the table
BadRange(min_fd, max_fd) == min_fd < 0 \/ max_fd >= MAX_FDS \/ min_fd > max_fd

\* C25: pico_vfs_register_fd_range never reads or writes a row outside
\* [0, MAX_FDS - 1]: a range with min < 0, max >= MAX_FDS or min > max is
\* rejected with the table, the registry and its count left as they were.
C25_RangeStaysInTable ==
    [][/\ ~oob'
       /\ (last'.op = "register_fd_range" /\ BadRange(last'.fd, last'.max_fd)) =>
              /\ last'.ret # 0
              /\ s_fd_table' = s_fd_table
              /\ s_vfs' = s_vfs
              /\ s_vfs_count' = s_vfs_count]_vars

\* the step is a returned ref (locked or not) of object o
RefOf(o) == last'.op \in {"object_ref", "object_ref_nolock"} /\ last'.dev = o /\ dev' # dev

\* C23: a reference count never exceeds 254: a ref at 254 trips the assertion
\* and leaves the count, the count never reaches 255 and never wraps to 0.
C23_RefcountCeiling ==
    [][\A o \in Devs :
           /\ dev'[o].refcnt <= 254
           /\ (RefOf(o) /\ dev[o].refcnt = 254) =>
                  dev'[o].aborted /\ dev'[o].refcnt = 254
           /\ RefOf(o) => dev'[o].refcnt # 0]_vars

\* the step is a returned pico_blockdev_register(d)
RegisterOf(d) ==
    last'.op = "blockdev_register" /\ last'.dev = d /\ bthr'[1].calls # bthr[1].calls

\* the children d gained in the step (pico_blockdev_add_child puts a child at
\* the head of the list)
Added(d) == SubSeq(dev'[d].children, 1, Len(dev'[d].children) - Len(dev[d].children))

\* device c is a partition of d made from entry p
PartitionOf(c, d, p) ==
    /\ dev'[c].ops = "part"
    /\ dev'[c].parent = d
    /\ dev'[c].start_sector = p.start_sect[1] + 256 * (p.start_sect[2]
           + 256 * (p.start_sect[3] + 256 * p.start_sect[4]))
    /\ dev'[c].num_sectors = p.nr_sects[1] + 256 * (p.nr_sects[2]
           + 256 * (p.nr_sects[3] + 256 * p.nr_sects[4]))

\* C21: pico_blockdev_register of a root device whose sector 0 is read as one
\* sector and ends in 0x55 0xAA gives the device exactly one partition child
\* per entry with a non-zero type, with the entry's start and size and the
\* device as parent; on any other sector 0 it gives the device no child; a
\* device with a parent is not scanned; BLKGETSIZE on a partition returns its
\* num_sectors.
C21_ScanMakesPartitions ==
    [][/\ \A d \in Devs :
              RegisterOf(d) =>
                  LET disk == last'.disk
                      found == {i \in 1..4 : disk.entries[i].sys_ind # 0}
                      added == Added(d)
                  IN  IF dev[d].parent # NULL
                      THEN /\ dev'[d].children = dev[d].children
                           /\ FreeDevs(dev') = FreeDevs(dev)
                      ELSE IF disk.r = 1 /\ disk.sect510 = 85 /\ disk.sect511 = 170
                      THEN \E f \in [found -> 1..Len(added)] :
                              /\ \A i, j \in found : f[i] = f[j] => i = j
                              /\ \A k \in 1..Len(added) : \E i \in found : f[i] = k
                              /\ \A i \in found :
                                     PartitionOf(added[f[i]], d, disk.entries[i])
                      ELSE dev'[d].children = dev[d].children
       /\ (/\ last'.op = "blockdev_ioctl"
           /\ last'.cmd = PICO_IOCTL_BLKGETSIZE
           /\ bthr'[1].calls # bthr[1].calls) =>
              last'.ret = 0 /\ last'.data = <<dev[last'.dev].num_sectors>>]_vars

\* C29: pico_blockdev_register of a root device leaves its count at the count
\* before, less one, plus the number of children the scan added; every child
\* added has count 1; the device is destroyed in the call exactly when the
\* count it is left with is zero.
C29_RegisterRefcount ==
    [][\A d \in Devs :
           (RegisterOf(d) /\ dev[d].parent = NULL) =>
               /\ dev'[d].refcnt = dev[d].refcnt - 1 + Len(Added(d))
               /\ \A k \in 1..Len(Added(d)) : dev'[Added(d)[k]].refcnt = 1
               /\ dev'[d].destroyed =
                      dev[d].destroyed + (IF dev'[d].refcnt = 0 THEN 1 ELSE 0)]_vars

\* C29 witness: a device with an external reference was registered over a
\* table of two partitions; it is alive with three references
C29_Witness ==
    /\ last.op = "blockdev_register"
    /\ dev[last.dev].parent = NULL
    /\ Len(dev[last.dev].children) = 2
    /\ dev[last.dev].refcnt = 3
    /\ dev[last.dev].destroyed = 0

\* the entries of the root directory from slot i on: one per slot that holds
\* a backend with a prefix that is neither empty nor ignored
RECURSIVE RootEntries(_)
RootEntries(i) ==
    IF i >= VFS_MAX_COUNT THEN <<>>
    ELSE IF /\ s_vfs[i] # NULL
            /\ heap[s_vfs[i]].path_prefix_len # LEN_PATH_PREFIX_IGNORED
            /\ heap[s_vfs[i]].path_prefix # <<>>
    THEN <<[d_name |-> Tail(heap[s_vfs[i]].path_prefix), d_type |-> "DT_DIR"]>>
             \o RootEntries(i + 1)
    ELSE RootEntries(i + 1)

\* C24: on a handle of opendir("/") from the root backend, the registry staying
\* as it is, the entries readdir returned so far are the first entries of the
\* root directory in slot order, each the prefix without its leading '/' and a
\* directory; a call returns null only once all of them were returned, and
\* every call after that returns null.
C24_RootReaddir ==
    dir.open =>
        /\ Len(dir.seen) <= Len(RootEntries(0))
        /\ dir.seen = SubSeq(RootEntries(0), 1, Len(dir.seen))
        /\ dir.calls > Len(dir.seen) => dir.seen = RootEntries(0)

\* C24 witness: the root directory of a registry with a free slot below two
\* mounted drivers was read: two entries, then null twice
C24_Witness ==
    /\ dir.open
    /\ last.op = "readdir" /\ last.ret = NULL
    /\ Len(dir.seen) = 2
    /\ dir.calls = 4
    /\ \E i, j \in Slots : i < j /\ s_vfs[i] = NULL /\ s_vfs[j] # NULL

\* thread u has had the backend's close invoked for the open that put local
\* descriptor lfd in row d, and has not returned yet
InBackendClose(u, d, lfd) ==
    /\ thr[u].op = "close" /\ thr[u].fd = d /\ thr[u].local_fd = lfd
    /\ thr[u].pc \in {"backend", "close_lock", "close_free", "close_unlock"}

\* C27: a row is freed only by a close of its descriptor that read the row
\* while it belonged to the open that still owns it (never by a close that
\* read an earlier owner), and the backend's close is invoked at most once for
\* an open: when a close invokes it the row still belongs to that open and no
\* other close has invoked it for the same open.
C27_CloseFreesItsOwnOpen ==
    [][/\ \A d \in Rows :
              (/\ vfs_initialised
               /\ s_fd_table[d].vfs_index # -1
               /\ s_fd_table'[d].vfs_index = -1) =>
                  \E t \in Threads :
                      /\ thr[t].op = "close" /\ thr[t].fd = d
                      /\ thr[t].pc = "close_free"
                      /\ thr[t].local_fd = s_fd_table[d].local_fd
       /\ \A t \in Threads :
              (/\ thr[t].op = "close"
               /\ thr[t].pc = "call"
               /\ thr'[t].pc = "backend") =>
                  /\ s_fd_table[thr[t].fd].vfs_index # -1
                  /\ s_fd_table[thr[t].fd].local_fd = thr[t].local_fd
                  /\ \A u \in Threads \ {t} :
                         ~InBackendClose(u, thr[t].fd, thr[t].local_fd)]_vars

\* C28: no backend entry is freed while a thread is between having resolved it
\* (by descriptor or by path) and the return of the backend operation it
\* invokes through it.
C28_EntryLiveDuringDispatch ==
    \A t \in Threads :
        (thr[t].pc \in {"decl_local_fd", "call", "backend"} /\ thr[t].vfs # NULL) =>
            thr[t].vfs \notin freed

\* the steps at which a call waits for s_fd_table_mutex
LockPcs == {"close_lock", "open_lock", "unreg_lock"}

====
